---- MODULE Spec2Model ----
(***************************************************************************)
(* Model of the graph store of final_devforge_db:                          *)
(*   graph_db/graph_db.py  GraphDatabase (networkx MultiDiGraph + edge-id  *)
(*                         index + JSON snapshot)                         *)
(*   graph_db/models.py    GraphNode / GraphRelationship                   *)
(*   graph_db/graph.py     GraphDB (edge and node edits by endpoints)      *)
(*   hybrid_retrieval.py   graph_score and the multi-source expansion      *)
(*   app/service.py        HybridRetrievalService (delete_node count,      *)
(*                         graph_traversal, hybrid_search,                 *)
(*                         process_pdf_and_search)                         *)
(*   app/routers/*.py      PUT /edges/{edge_id}; handlers run on worker    *)
(*                         threads of the server's thread pool             *)
(* Optional values are modelled as sequences of length <= 1:               *)
(*   None is <<>>, a supplied value x is <<x>>.                            *)
(***************************************************************************)
EXTENDS Integers, Sequences, FiniteSets, TLC

(* ------------------------------ bounds --------------------------------- *)
\* caller-supplied node ids are <<"id", 1>> .. <<"id", MaxSuppliedIds>>
MaxSuppliedIds == 2
\* number of calls a behaviour makes on the store
MaxCalls == 2
\* traversal depths are 0 .. MaxDepth
MaxDepth == 1

(* --------------------------- value domains ----------------------------- *)
None == <<>>
Some(x) == <<x>>

\* the empty string, a caller-supplied id that Python treats as falsy
EmptyStrId == <<"id", 0>>
SuppliedIds == {<<"id", i>> : i \in 1..MaxSuppliedIds}
Uuid(n) == <<"uuid", n>>
\* the uuid4() values: the one in the stored file, and at most one per call
Uuids == {Uuid(n) : n \in 1..(MaxCalls + 1)}
\* every id a node or edge may have, and the empty string
Ids == SuppliedIds \cup Uuids \cup {EmptyStrId}
\* the ids a call looks up in a collection whose keys are `present`: each key,
\* and two ids that are not keys (the empty string never is one); the code
\* branches on `id not in collection` only, so every other absent id takes
\* the same step
Lookups(present) ==
    LET rest == Ids \ (present \cup {EmptyStrId})
    IN  present \cup {EmptyStrId}
            \cup (IF rest = {} THEN {} ELSE {CHOOSE i \in rest : TRUE})

\* a metadata dict is the set of its (key, value) items
EmptyDict == {}
Guide == {<<"type", "guide">>}
Vec == <<1, 2>>
\* the node_id argument of create_node: omitted, the empty string, a supplied id
NodeIdArgs == {None, Some(EmptyStrId)} \cup {Some(i) : i \in SuppliedIds}
\* the <<text, metadata, embedding>> arguments create_node is called with
NodeInputs == {<<"t1", None, None>>, <<"t2", Some(Guide), Some(Vec)>>}
\* the <<text, metadata, embedding>> arguments update_node is called with
UpdateInputs ==
    {<<None, None, None>>, <<Some("t1"), None, None>>, <<None, Some(Guide), None>>,
     <<None, None, Some(Vec)>>, <<Some("t2"), Some(EmptyDict), None>>}
RelTypes == {"r1", "r2"}
\* the weights edges are created and updated with
Weights == {1, 2}

VARIABLES
    nodes,        \* self.graph._node: node id -> attribute dict
    adj,          \* self.graph._succ: <<source, target>> -> key dict, in insertion order
    edge_id_map,  \* self._edge_id_map: edge id -> <<source, target, key>>
    auto_persist, \* self.auto_persist
    snapshot,     \* the JSON file at self.db_path
    uuids,        \* number of uuid4() values drawn so far, earlier runs included
    issued,       \* history: every edge id created or loaded so far
    calls,        \* number of calls made so far
    ret,          \* the last call: the operation, the value returned, the exception raised
    frames        \* the calls in progress: worker thread -> the position and locals of its call

vars == <<nodes, adj, edge_id_map, auto_persist, snapshot, uuids, issued, calls, ret,
          frames>>

(* ------------------------ networkx MultiDiGraph ------------------------ *)
Range(s) == {s[i] : i \in DOMAIN s}

\* MultiDiGraph.add_node: creates the node or updates the attributes of an existing one
add_node(ns, id, attrs) ==
    [i \in (DOMAIN ns) \cup {id} |-> IF i = id THEN attrs ELSE ns[i]]

\* MultiGraph.new_edge_key: len(keydict), incremented while already in use
new_edge_key(kd) ==
    LET used == {kd[i].key : i \in DOMAIN kd}
    IN  CHOOSE k \in Len(kd)..(2 * Len(kd)) :
            /\ k \notin used
            /\ \A j \in Len(kd)..(k - 1) : j \in used

keydict(a, s, t) == IF <<s, t>> \in DOMAIN a THEN a[<<s, t>>] ELSE <<>>

\* add_edge of a graph that keeps one edge per (s, t): the new edge replaces the others
add_edge_single(a, s, t, data) ==
    LET e == [key |-> 0, id |-> data.id, type |-> data.type, weight |-> data.weight]
    IN  [p \in (DOMAIN a) \cup {<<s, t>>} |-> IF p = <<s, t>> THEN <<e>> ELSE a[p]]

\* MultiDiGraph.add_edge without a key: appends to the key dict of (s, t)
add_edge(a, s, t, data) ==
    LET kd == keydict(a, s, t)
        e  == [key |-> new_edge_key(kd), id |-> data.id,
               type |-> data.type, weight |-> data.weight]
    IN  [p \in (DOMAIN a) \cup {<<s, t>>} |->
            IF p = <<s, t>> THEN Append(kd, e) ELSE a[p]]

\* add_edge also creates endpoints that are missing, with no attributes
add_edge_nodes(ns, s, t) ==
    [i \in (DOMAIN ns) \cup {s, t} |-> IF i \in DOMAIN ns THEN ns[i] ELSE <<>>]

\* remove_edge that drops every edge between the two nodes
remove_edge_all(a, s, t, key) ==
    [p \in (DOMAIN a) \ {<<s, t>>} |-> a[p]]

\* MultiDiGraph.remove_edge(u, v, key): drops the entry, and the pair when it was the last
remove_edge(a, s, t, key) ==
    LET kd   == SelectSeq(a[<<s, t>>], LAMBDA e : e.key # key)
        keep == IF kd = <<>> THEN (DOMAIN a) \ {<<s, t>>} ELSE DOMAIN a
    IN  [p \in keep |-> IF p = <<s, t>> THEN kd ELSE a[p]]

\* remove_node_adj that forgets the edges pointing at the node
remove_node_adj_out_only(a, n) ==
    [p \in {q \in DOMAIN a : q[1] # n} |-> a[p]]

\* MultiDiGraph.remove_node: drops the node's adjacency in both directions
remove_node_adj(a, n) ==
    [p \in {q \in DOMAIN a : q[1] # n /\ q[2] # n} |-> a[p]]

remove_node(ns, n) == [i \in (DOMAIN ns) \ {n} |-> ns[i]]

successors(a, n) == {p[2] : p \in {q \in DOMAIN a : q[1] = n}}
\* predecessors that follows the edges forwards
predecessors_forwards(a, n) == {p[2] : p \in {q \in DOMAIN a : q[1] = n}}

predecessors(a, n) == {p[1] : p \in {q \in DOMAIN a : q[2] = n}}

RECURSIVE SumLen(_, _)
SumLen(a, ps) ==
    IF ps = {} THEN 0
    ELSE LET p == CHOOSE q \in ps : TRUE
         IN  Len(a[p]) + SumLen(a, ps \ {p})

out_degree(a, n) == SumLen(a, {q \in DOMAIN a : q[1] = n})
in_degree(a, n) == SumLen(a, {q \in DOMAIN a : q[2] = n})

\* every edge of the graph as [source, target, key, id, type, weight]
Edges(a) ==
    UNION {{[source |-> p[1], target |-> p[2], key |-> a[p][i].key,
             id |-> a[p][i].id, type |-> a[p][i].type, weight |-> a[p][i].weight]
            : i \in DOMAIN a[p]} : p \in DOMAIN a}

(* ------------------------- graph_db/models.py -------------------------- *)
\* `x or default` on an id: None and the empty string are falsy
IsFalsyId(node_id) == node_id = None \/ node_id = Some(EmptyStrId)

\* a uuid4 that returns the same value on every call
uuid4_reused(n) == Uuid(1)

\* uuid.uuid4(): a value never returned before
uuid4(n) == Uuid(n + 1)

\* the uuid4() value `x or str(uuid.uuid4())` draws when a stored id is passed
\* and is falsy: an id that no node or edge has
Regenerated == Uuid(0)

\* GraphNode.__init__; `fresh` is the uuid4() value, drawn only when node_id is falsy
GraphNode(text, metadata, embedding, node_id, fresh) ==
    [id        |-> IF IsFalsyId(node_id) THEN fresh ELSE node_id[1],
     text      |-> text,
     metadata  |-> IF metadata = None \/ metadata = Some(EmptyDict)
                   THEN EmptyDict ELSE metadata[1],
     embedding |-> embedding]

\* node_data.get("embedding")
get_embedding(node_data) ==
    IF "embedding" \in DOMAIN node_data THEN node_data.embedding ELSE None

\* GraphRelationship.__init__; edge_id is None on creation, supplied on load and get
GraphRelationship(source, target, rel_type, weight, edge_id, fresh) ==
    [id     |-> IF IsFalsyId(edge_id) THEN fresh ELSE edge_id[1],
     source |-> source,
     target |-> target,
     type   |-> rel_type,
     weight |-> weight]

\* NodeAttrs that does not store the embedding
NodeAttrs_no_embedding(node) ==
    [text |-> node.text, metadata |-> node.metadata, embedding |-> None]

\* the attribute dict create_node and load store for a node
NodeAttrs(node) ==
    [text |-> node.text, metadata |-> node.metadata, embedding |-> node.embedding]

(* ----------------------------- persistence ----------------------------- *)
\* the file at db_path: whether it exists, whether it can be opened and parsed
\* as JSON, the node and edge records that are readable in file order,
\* whether a record that lacks a required field follows them, and whether
\* mkdir() and open(path, 'w') succeed on the path
NoFile ==
    [exists |-> FALSE, json |-> FALSE, nodes |-> <<>>, edges |-> <<>>, bad |-> FALSE,
     writable |-> TRUE]

\* a file that cannot be opened, is empty or truncated, or is not JSON
NotJsonFile ==
    [exists |-> TRUE, json |-> FALSE, nodes |-> <<>>, edges |-> <<>>, bad |-> FALSE,
     writable |-> TRUE]

\* the same file on a path the process may not write: open(path, 'w') raises
\* PermissionError, an OSError
ReadOnly(file) == [file EXCEPT !.writable = FALSE]

\* GraphDatabase.save: GraphNode.to_dict per node, GraphRelationship.to_dict per
\* edge (the storage key is not written); edges are kept per (source, target)
\* in key-dict order, the order load re-inserts them in
save(ns, a) ==
    [exists |-> TRUE,
     json   |-> TRUE,
     bad    |-> FALSE,
     writable |-> TRUE,
     nodes  |-> [i \in DOMAIN ns |->
                   NodeAttrs(GraphNode(ns[i].text, Some(ns[i].metadata),
                                       get_embedding(ns[i]), Some(i), Regenerated))],
     edges  |-> [p \in DOMAIN a |->
                   [k \in DOMAIN a[p] |->
                      LET e == GraphRelationship(p[1], p[2], a[p][k].type,
                                   a[p][k].weight, Some(a[p][k].id), Regenerated)
                      IN  [id |-> e.id, type |-> e.type, weight |-> e.weight]]]]

\* GraphDatabase.load, nodes: GraphNode.from_dict then add_node into the cleared graph
load_nodes(file) ==
    [i \in DOMAIN file.nodes |->
        NodeAttrs(GraphNode(file.nodes[i].text, Some(file.nodes[i].metadata),
                            file.nodes[i].embedding, Some(i), Regenerated))]

\* GraphDatabase.load, edges: add_edge in file order into the cleared graph,
\* so the k-th edge of a pair gets key k - 1
load_adj(file) ==
    [p \in DOMAIN file.edges |->
        [k \in DOMAIN file.edges[p] |->
            [key |-> k - 1, id |-> file.edges[p][k].id,
             type |-> file.edges[p][k].type, weight |-> file.edges[p][k].weight]]]

\* load_edge_id_map that records the first key of the pair for every edge
load_edge_id_map_first_key(file) ==
    LET es == Edges(load_adj(file))
    IN  [i \in {e.id : e \in es} |->
            LET e == CHOOSE x \in es : x.id = i
            IN  <<e.source, e.target, 0>>]

\* GraphDatabase.load: self._edge_id_map[edge.id] = (source, target, key)
load_edge_id_map(file) ==
    LET es == Edges(load_adj(file))
    IN  [i \in {e.id : e \in es} |->
            LET e == CHOOSE x \in es : x.id = i
            IN  <<e.source, e.target, e.key>>]

\* the exception GraphDatabase.load raises on a file, "" when it returns:
\* open() and json.load() raise before the graph is cleared; from_dict raises
\* KeyError on a record that lacks a field, after the records before it were added
load_raises(file) ==
    IF ~file.exists THEN "FileNotFoundError"
    ELSE IF ~file.json THEN "JSONDecodeError"
    ELSE IF file.bad THEN "KeyError"
    ELSE ""

\* GraphDatabase.save raises KeyError at node_data["text"] / node_data["metadata"]
\* for a node that lacks the attribute, before the file is opened
save_raises(ns) == \E i \in DOMAIN ns : ~({"text", "metadata"} \subseteq DOMAIN ns[i])

\* a persist that writes nothing
persist_never(ap, ns, a, file) == file

\* the file after `if self.auto_persist: self.persist()`
persist(ap, ns, a, file) == IF ap /\ ~save_raises(ns) THEN save(ns, a) ELSE file

\* the record of a call that returned val
Call(op, val) == [op |-> op, val |-> val, exc |-> ""]

\* the record of a call that raised exception exc
Raise(op, exc) == [op |-> op, val |-> None, exc |-> exc]

\* the call record of a mutating call that returns val unless persist() raises
Returns(op, val, ap, ns) ==
    IF ap /\ save_raises(ns) THEN Raise(op, "KeyError") ELSE Call(op, val)

\* `if self.auto_persist: self.persist()` followed by `return val`, with ap for
\* self.auto_persist: the file is rewritten and val returned, or, on a path
\* that is not writable, open() raises OSError and the file is left as it was
PersistAndReturn(op, val, ap, ns, a) ==
    IF ap /\ ~save_raises(ns) /\ ~snapshot.writable
    THEN /\ snapshot' = snapshot
         /\ ret' = Raise(op, "OSError")
    ELSE /\ snapshot' = persist(ap, ns, a, snapshot)
         /\ ret' = Returns(op, val, ap, ns)

(* ------------------------------ Init ----------------------------------- *)
\* the graph an earlier run saved at db_path: two nodes created with the ids
\* "1" and "2", and one edge between them
StoredNodes ==
    LET n1 == GraphNode("t1", None, None, Some(<<"id", 1>>), <<"id", 1>>)
        n2 == GraphNode("t2", Some(Guide), Some(Vec), Some(<<"id", 2>>), <<"id", 2>>)
    IN  add_node(add_node(<<>>, n1.id, NodeAttrs(n1)), n2.id, NodeAttrs(n2))

StoredAdj ==
    add_edge(<<>>, <<"id", 1>>, <<"id", 2>>,
             GraphRelationship(<<"id", 1>>, <<"id", 2>>, "r1", 1, None, uuid4(0)))

StoredFile == save(StoredNodes, StoredAdj)

\* the stored file with an edge record that lost its "type": the two node
\* records are readable, the edge record is not
DamagedFile == [StoredFile EXCEPT !.edges = <<>>, !.bad = TRUE]

NoCall == [op |-> "init", val |-> None, exc |-> ""]

\* no call in progress
NoFrames == <<>>

\* GraphDatabase.__init__: an empty graph; when auto_persist is set and the
\* file exists, load() runs with its exceptions swallowed, so the graph is
\* what load() had added when it returned or raised
Init ==
    /\ auto_persist \in BOOLEAN
    /\ snapshot \in {NoFile, StoredFile, NotJsonFile, DamagedFile,
                    ReadOnly(NoFile), ReadOnly(StoredFile)}
    /\ nodes = IF auto_persist /\ snapshot.exists /\ snapshot.json
               THEN load_nodes(snapshot) ELSE <<>>
    /\ adj = IF auto_persist /\ snapshot.exists /\ snapshot.json
             THEN load_adj(snapshot) ELSE <<>>
    /\ edge_id_map = IF auto_persist /\ snapshot.exists /\ snapshot.json
                     THEN load_edge_id_map(snapshot) ELSE <<>>
    /\ uuids = IF snapshot.exists THEN 1 ELSE 0
    /\ issued = DOMAIN edge_id_map
    /\ calls = 0
    /\ ret = NoCall
    /\ frames = NoFrames

\* one more call on the store, made and finished while no other call is in progress
Called == calls < MaxCalls /\ calls' = calls + 1 /\ frames = NoFrames /\ frames' = frames

(* ------------------------------ Node CRUD ------------------------------ *)
\* GraphDatabase.create_node
create_node(text, metadata, embedding, node_id) ==
    LET node == GraphNode(text, metadata, embedding, node_id, uuid4(uuids))
    IN  /\ uuids' = IF IsFalsyId(node_id) THEN uuids + 1 ELSE uuids
        /\ nodes' = add_node(nodes, node.id, NodeAttrs(node))
        /\ PersistAndReturn("create_node", Some(node), auto_persist, nodes', adj)
        /\ UNCHANGED <<adj, edge_id_map, auto_persist, issued>>

CreateNode ==
    /\ Called
    /\ \E in \in NodeInputs, node_id \in NodeIdArgs :
            create_node(in[1], in[2], in[3], node_id)

\* GraphDatabase.get_node raises KeyError at node_data["text"] / node_data["metadata"]
get_node_raises(ns, node_id) ==
    node_id \in DOMAIN ns /\ ~({"text", "metadata"} \subseteq DOMAIN ns[node_id])

\* GraphDatabase.get_node
get_node(ns, node_id) ==
    IF node_id \notin DOMAIN ns THEN None
    ELSE Some(GraphNode(ns[node_id].text, Some(ns[node_id].metadata),
                        get_embedding(ns[node_id]), Some(node_id), Regenerated))

GetNode ==
    /\ Called
    /\ \E node_id \in Lookups(DOMAIN nodes) :
            ret' = IF get_node_raises(nodes, node_id) THEN Raise("get_node", "KeyError")
                   ELSE Call("get_node", get_node(nodes, node_id))
    /\ UNCHANGED <<nodes, adj, edge_id_map, auto_persist, snapshot, uuids, issued>>

\* set_attrs that resets the metadata to {} when none is supplied
set_attrs_resets_metadata(node_data, text, metadata, embedding) ==
    LET supplied == (IF text # None THEN {"text"} ELSE {})
                    \cup {"metadata"}
                    \cup (IF embedding # None THEN {"embedding"} ELSE {})
    IN  [k \in (DOMAIN node_data) \cup supplied |->
            IF k \notin supplied THEN node_data[k]
            ELSE IF k = "text" THEN text[1]
            ELSE IF k = "metadata" THEN (IF metadata = None THEN EmptyDict ELSE metadata[1])
            ELSE embedding]

\* the three `if x is not None: self.graph.nodes[node_id][...] = x` of update_node
set_attrs(node_data, text, metadata, embedding) ==
    LET supplied == (IF text # None THEN {"text"} ELSE {})
                    \cup (IF metadata # None THEN {"metadata"} ELSE {})
                    \cup (IF embedding # None THEN {"embedding"} ELSE {})
    IN  [k \in (DOMAIN node_data) \cup supplied |->
            IF k \notin supplied THEN node_data[k]
            ELSE IF k = "text" THEN text[1]
            ELSE IF k = "metadata" THEN metadata[1]
            ELSE embedding]

\* GraphDatabase.update_node
update_node(node_id, text, metadata, embedding) ==
    IF node_id \notin DOMAIN nodes
    THEN /\ ret' = Call("update_node", FALSE)
         /\ UNCHANGED <<nodes, adj, edge_id_map, auto_persist, snapshot, uuids, issued>>
    ELSE /\ nodes' = [nodes EXCEPT ![node_id] = set_attrs(@, text, metadata, embedding)]
         /\ PersistAndReturn("update_node", TRUE, auto_persist, nodes', adj)
         /\ UNCHANGED <<adj, edge_id_map, auto_persist, uuids, issued>>

UpdateNode ==
    /\ Called
    /\ \E node_id \in Lookups(DOMAIN nodes), in \in UpdateInputs : update_node(node_id, in[1], in[2], in[3])

\* delete_node that drops only the index entries of outgoing edges
delete_node_map_source_only(m, node_id) ==
    [i \in {j \in DOMAIN m : m[j][1] # node_id} |-> m[i]]

\* GraphDatabase.delete_node: drops the index entries of incident edges, then the node
delete_node_map(m, node_id) ==
    [i \in {j \in DOMAIN m : m[j][1] # node_id /\ m[j][2] # node_id} |-> m[i]]

\* HybridRetrievalService.delete_node: counts out_degree + in_degree, then
\* calls GraphDatabase.delete_node; None when the node is absent
delete_node(node_id) ==
    LET edges_removed == IF node_id \in DOMAIN nodes
                         THEN out_degree(adj, node_id) + in_degree(adj, node_id)
                         ELSE 0
    IN  IF node_id \notin DOMAIN nodes
        THEN /\ ret' = Call("delete_node", None)
             /\ UNCHANGED <<nodes, adj, edge_id_map, auto_persist, snapshot, uuids, issued>>
        ELSE /\ edge_id_map' = delete_node_map(edge_id_map, node_id)
             /\ nodes' = remove_node(nodes, node_id)
             /\ adj' = remove_node_adj(adj, node_id)
             /\ PersistAndReturn("delete_node", Some(edges_removed), auto_persist,
                                 nodes', adj')
             /\ UNCHANGED <<auto_persist, uuids, issued>>

DeleteNode == Called /\ \E node_id \in Lookups(DOMAIN nodes) : delete_node(node_id)

(* ------------------------------ Edge CRUD ------------------------------ *)
\* the endpoint check with `and` for `or`: fails only when both are missing
endpoint_missing_both(ns, source_id, target_id) ==
    source_id \notin DOMAIN ns /\ target_id \notin DOMAIN ns

\* `source_id not in self.graph.nodes or target_id not in self.graph.nodes`
endpoint_missing(ns, source_id, target_id) ==
    source_id \notin DOMAIN ns \/ target_id \notin DOMAIN ns

\* GraphDatabase.create_edge
create_edge(source_id, target_id, rel_type, weight) ==
    IF endpoint_missing(nodes, source_id, target_id)
    THEN /\ ret' = Call("create_edge", None)
         /\ UNCHANGED <<nodes, adj, edge_id_map, auto_persist, snapshot, uuids, issued>>
    ELSE LET edge == GraphRelationship(source_id, target_id, rel_type, weight,
                                       None, uuid4(uuids))
             key  == new_edge_key(keydict(adj, source_id, target_id))
         IN  /\ uuids' = uuids + 1
             /\ nodes' = add_edge_nodes(nodes, source_id, target_id)
             /\ adj' = add_edge(adj, source_id, target_id, edge)
             /\ edge_id_map' =
                    [i \in (DOMAIN edge_id_map) \cup {edge.id} |->
                        IF i = edge.id THEN <<source_id, target_id, key>>
                        ELSE edge_id_map[i]]
             /\ issued' = issued \cup {edge.id}
             /\ PersistAndReturn("create_edge", Some(edge), auto_persist, nodes', adj')
             /\ UNCHANGED auto_persist

CreateEdge ==
    /\ Called
    /\ \E source_id \in Lookups(DOMAIN nodes), target_id \in Lookups(DOMAIN nodes),
          rel_type \in RelTypes, weight \in Weights :
            create_edge(source_id, target_id, rel_type, weight)

\* self.graph[source][target][key]
edge_data(a, s, t, key) ==
    LET kd == a[<<s, t>>]
    IN  kd[CHOOSE i \in DOMAIN kd : kd[i].key = key]

\* GraphDatabase.get_edge
get_edge(a, m, edge_id) ==
    IF edge_id \notin DOMAIN m THEN None
    ELSE LET d == edge_data(a, m[edge_id][1], m[edge_id][2], m[edge_id][3])
         IN  Some(GraphRelationship(m[edge_id][1], m[edge_id][2], d.type, d.weight,
                                    Some(d.id), Regenerated))

GetEdge ==
    /\ Called
    /\ \E edge_id \in Lookups(DOMAIN edge_id_map) :
            ret' = Call("get_edge", get_edge(adj, edge_id_map, edge_id))
    /\ UNCHANGED <<nodes, adj, edge_id_map, auto_persist, snapshot, uuids, issued>>

\* delete_edge that removes the edge from the graph and keeps its index entry
delete_edge_keeps_entry(edge_id) ==
    IF edge_id \notin DOMAIN edge_id_map
    THEN /\ ret' = Call("delete_edge", FALSE)
         /\ UNCHANGED <<nodes, adj, edge_id_map, auto_persist, snapshot, uuids, issued>>
    ELSE /\ adj' = remove_edge(adj, edge_id_map[edge_id][1], edge_id_map[edge_id][2],
                               edge_id_map[edge_id][3])
         /\ PersistAndReturn("delete_edge", TRUE, auto_persist, nodes, adj')
         /\ UNCHANGED <<nodes, edge_id_map, auto_persist, uuids, issued>>

\* GraphDatabase.delete_edge
delete_edge(edge_id) ==
    IF edge_id \notin DOMAIN edge_id_map
    THEN /\ ret' = Call("delete_edge", FALSE)
         /\ UNCHANGED <<nodes, adj, edge_id_map, auto_persist, snapshot, uuids, issued>>
    ELSE LET source == edge_id_map[edge_id][1]
             target == edge_id_map[edge_id][2]
             key    == edge_id_map[edge_id][3]
         IN  /\ adj' = remove_edge(adj, source, target, key)
             /\ edge_id_map' = [i \in (DOMAIN edge_id_map) \ {edge_id} |-> edge_id_map[i]]
             /\ PersistAndReturn("delete_edge", TRUE, auto_persist, nodes, adj')
             /\ UNCHANGED <<nodes, auto_persist, uuids, issued>>

DeleteEdge == Called /\ \E edge_id \in Lookups(DOMAIN edge_id_map) : delete_edge(edge_id)

\* PUT /edges/{edge_id}: the router calls service.update_edge(edge_id, update),
\* a method HybridRetrievalService does not define (nor does GraphDatabase), so
\* the attribute lookup raises AttributeError before anything is read or written
update_edge(edge_id, weight) ==
    /\ ret' = Raise("update_edge", "AttributeError")
    /\ UNCHANGED <<nodes, adj, edge_id_map, auto_persist, snapshot, uuids, issued>>

UpdateEdge ==
    /\ Called
    /\ \E edge_id \in Lookups(DOMAIN edge_id_map),weight \in Weights :
            update_edge(edge_id, weight)

(* --------------------------- graph operations -------------------------- *)
\* iteration over a Python set: some order of its elements
RECURSIVE SetToSeq(_)
SetToSeq(S) ==
    IF S = {} THEN <<>>
    ELSE LET x == CHOOSE y \in S : TRUE
         IN  <<x>> \o SetToSeq(S \ {x})

\* a loop that explores neighbours only from the last level but one
RECURSIVE traverse_loop_last_level(_, _, _, _, _)
traverse_loop_last_level(a, queue, visited, result, depth) ==
    IF queue = <<>> THEN result
    ELSE LET node_id       == Head(queue)[1]
             current_depth == Head(queue)[2]
         IN  IF node_id \in visited
             THEN traverse_loop_last_level(a, Tail(queue), visited, result, depth)
             ELSE LET visited2  == visited \cup {node_id}
                      neighbors == IF current_depth = depth - 1
                                   THEN (successors(a, node_id) \cup predecessors(a, node_id))
                                            \ visited2
                                   ELSE {}
                      pushed    == SetToSeq(neighbors)
                  IN  traverse_loop_last_level(a,
                          Tail(queue) \o [i \in DOMAIN pushed |->
                                              <<pushed[i], current_depth + 1>>],
                          visited2, Append(result, node_id), depth)

\* the while loop of GraphDatabase.traverse; queue entries are <<node_id, depth>>
RECURSIVE traverse_loop(_, _, _, _, _)
traverse_loop(a, queue, visited, result, depth) ==
    IF queue = <<>> THEN result
    ELSE LET node_id       == Head(queue)[1]
             current_depth == Head(queue)[2]
         IN  IF node_id \in visited
             THEN traverse_loop(a, Tail(queue), visited, result, depth)
             ELSE LET visited2  == visited \cup {node_id}
                      neighbors == IF current_depth < depth
                                   THEN (successors(a, node_id) \cup predecessors(a, node_id))
                                            \ visited2
                                   ELSE {}
                      pushed    == SetToSeq(neighbors)
                  IN  traverse_loop(a,
                          Tail(queue) \o [i \in DOMAIN pushed |->
                                              <<pushed[i], current_depth + 1>>],
                          visited2, Append(result, node_id), depth)

\* traverse without the check that the start node exists
traverse_no_check(ns, a, start_id, depth) ==
    traverse_loop(a, <<<<start_id, 0>>>>, {}, <<>>, depth)

\* traverse that explores one level further than asked
traverse_one_more(ns, a, start_id, depth) ==
    IF start_id \notin DOMAIN ns THEN <<>>
    ELSE traverse_loop(a, <<<<start_id, 0>>>>, {}, <<>>, depth + 1)

\* GraphDatabase.traverse
traverse(ns, a, start_id, depth) ==
    IF start_id \notin DOMAIN ns THEN <<>>
    ELSE traverse_loop(a, <<<<start_id, 0>>>>, {}, <<>>, depth)

Traverse ==
    /\ Called
    /\ \E start_id \in Lookups(DOMAIN nodes), depth \in 0..MaxDepth :
            ret' = Call("traverse", traverse(nodes, adj, start_id, depth))
    /\ UNCHANGED <<nodes, adj, edge_id_map, auto_persist, snapshot, uuids, issued>>

\* the while loop of HybridRetrievalService.graph_traversal: visited maps a
\* node to the depth it was queued at, a result item is made for every node
\* popped at depth > 0, and only successors are followed
RECURSIVE graph_traversal_loop(_, _, _, _, _)
graph_traversal_loop(a, queue, visited, results, depth) ==
    IF queue = <<>> THEN results
    ELSE LET node_id       == Head(queue)[1]
             current_depth == Head(queue)[2]
             results2      == IF current_depth > 0
                              THEN Append(results, [node_id |-> node_id,
                                                    depth |-> current_depth])
                              ELSE results
             neighbors     == IF current_depth < depth
                              THEN successors(a, node_id) \ DOMAIN visited
                              ELSE {}
             pushed        == SetToSeq(neighbors)
         IN  graph_traversal_loop(a,
                 Tail(queue) \o [i \in DOMAIN pushed |-> <<pushed[i], current_depth + 1>>],
                 [n \in (DOMAIN visited) \cup neighbors |->
                     IF n \in DOMAIN visited THEN visited[n] ELSE current_depth + 1],
                 results2, depth)

\* the `results` list of graph_traversal when its loop ends
graph_traversal_results(a, start_id, depth) ==
    graph_traversal_loop(a, <<<<start_id, 0>>>>, [n \in {start_id} |-> 0], <<>>, depth)

\* HybridRetrievalService.graph_traversal: None for an absent start. For an
\* existing one no value is ever returned: a result item is an instance of
\* GraphTraversalResultItem, a name service.py imports from app.models, which
\* does not define it, and the response is built as
\* GraphTraversalResponse(start=, depth=, results=) while the model's required
\* fields are start_id, depth and nodes
graph_traversal(start_id, depth) ==
    /\ ret' = IF get_node_raises(nodes, start_id) THEN Raise("graph_traversal", "KeyError")
              ELSE IF get_node(nodes, start_id) = None THEN Call("graph_traversal", None)
              ELSE IF graph_traversal_results(adj, start_id, depth) # <<>>
              THEN Raise("graph_traversal", "ImportError")
              ELSE Raise("graph_traversal", "ValidationError")
    /\ UNCHANGED <<nodes, adj, edge_id_map, auto_persist, snapshot, uuids, issued>>

GraphTraversal ==
    /\ Called
    /\ \E start_id \in Lookups(DOMAIN nodes), depth \in 0..MaxDepth :
            graph_traversal(start_id, depth)

\* the direction argument of GraphDB.traverse
Directions == {"out", "in", "both"}

\* the while loop of GraphDB.traverse (graph.py); the list of collected edges
\* is not modelled
RECURSIVE GraphDB_traverse_loop(_, _, _, _, _)
GraphDB_traverse_loop(a, queue, visited_nodes, depth, direction) ==
    IF queue = <<>> THEN visited_nodes
    ELSE LET current_node  == Head(queue)[1]
             current_depth == Head(queue)[2]
         IN  IF current_node \in visited_nodes \/ current_depth > depth
             THEN GraphDB_traverse_loop(a, Tail(queue), visited_nodes, depth, direction)
             ELSE LET neighbors ==
                          IF current_depth < depth
                          THEN (IF direction \in {"out", "both"}
                                THEN SetToSeq(successors(a, current_node)) ELSE <<>>)
                               \o (IF direction \in {"in", "both"}
                                   THEN SetToSeq(predecessors(a, current_node)) ELSE <<>>)
                          ELSE <<>>
                  IN  GraphDB_traverse_loop(a,
                          Tail(queue) \o [i \in DOMAIN neighbors |->
                                              <<neighbors[i], current_depth + 1>>],
                          visited_nodes \cup {current_node}, depth, direction)

\* GraphDB.traverse on an existing start node: the ids of the returned nodes
GraphDB_traverse(a, start_node, depth, direction) ==
    GraphDB_traverse_loop(a, <<<<start_node, 0>>>>, {}, depth, direction)

(* ----------------------- explicit save and load ------------------------ *)
\* GraphDatabase.save() on the default path
Save ==
    /\ Called
    /\ PersistAndReturn("save", None, TRUE, nodes, adj)
    /\ UNCHANGED <<nodes, adj, edge_id_map, auto_persist, uuids, issued>>

\* GraphDatabase.load() on the default path: open() and json.load() raise
\* before the graph is cleared; after that the graph is cleared and the
\* records are added one by one until the end or the first bad record
Load ==
    /\ Called
    /\ IF ~snapshot.exists \/ ~snapshot.json
       THEN /\ ret' = Raise("load", load_raises(snapshot))
            /\ UNCHANGED <<nodes, adj, edge_id_map, auto_persist, snapshot, uuids, issued>>
       ELSE /\ nodes' = load_nodes(snapshot)
            /\ adj' = load_adj(snapshot)
            /\ edge_id_map' = load_edge_id_map(snapshot)
            /\ issued' = issued \cup DOMAIN edge_id_map'
            /\ ret' = IF load_raises(snapshot) = "" THEN Call("load", None)
                      ELSE Raise("load", load_raises(snapshot))
            /\ UNCHANGED <<auto_persist, snapshot, uuids>>

(* --------------------------- specification ----------------------------- *)
Next ==
    \/ CreateNode
    \/ GetNode
    \/ UpdateNode
    \/ DeleteNode
    \/ CreateEdge
    \/ GetEdge
    \/ UpdateEdge
    \/ DeleteEdge
    \/ Traverse
    \/ GraphTraversal
    \/ Save
    \/ Load

Spec == Init /\ [][Next]_vars

TypeOK ==
    /\ DOMAIN nodes \subseteq Ids
    /\ auto_persist \in BOOLEAN
    /\ uuids \in 0..(MaxCalls + 1)
    /\ issued \subseteq Ids
    /\ calls \in 0..MaxCalls

(* ------------------- traversal as a function of the graph -------------- *)
\* traverse and graph_traversal read the graph and change nothing, so they
\* are also checked from every graph of a family: create_node has made a node
\* for each id of TraverseIds, and create_edge has made one edge for each
\* pair of a set of at most MaxCalls ordered pairs (self-loops included)
TraverseIds == {<<"id", i>> : i \in 1..(MaxSuppliedIds + 1)}

TraverseNodes ==
    [i \in TraverseIds |-> NodeAttrs(GraphNode("t1", None, None, Some(i), i))]

\* the id of the edge made for pair p, one uuid per pair
TraverseEdgeId(p) == <<"uuid", p[1][2] * (MaxSuppliedIds + 2) + p[2][2]>>

TraverseAdj(pairs) ==
    [p \in pairs |-> add_edge(<<>>, p[1], p[2],
                              GraphRelationship(p[1], p[2], "r1", 1,
                                                Some(TraverseEdgeId(p)), Regenerated))[p]]

Traverse_Init ==
    /\ nodes = TraverseNodes
    /\ \E pairs \in SUBSET (TraverseIds \X TraverseIds) :
            /\ Cardinality(pairs) <= MaxCalls
            /\ adj = TraverseAdj(pairs)
            /\ edge_id_map = [i \in {TraverseEdgeId(p) : p \in pairs} |->
                                LET p == CHOOSE q \in pairs : TraverseEdgeId(q) = i
                                IN  <<p[1], p[2], 0>>]
    /\ auto_persist = FALSE
    /\ snapshot = NoFile
    /\ uuids = 0
    /\ issued = DOMAIN edge_id_map
    /\ calls = 0
    /\ ret = NoCall
    /\ frames = NoFrames

Traverse_Next ==
    \/ Traverse
    \/ GraphTraversal

Traverse_Spec == Traverse_Init /\ [][Traverse_Next]_vars

(* ------------------------- graph.py: GraphDB --------------------------- *)
\* GraphDB is the label/property store of graph.py: self.graph is again a
\* MultiDiGraph, kept in nodes and adj; a node's attributes are its label, an
\* edge's data is its relation. It has no edge ids, file or flags of its own:
\* the other variables stay as GraphDB_Init sets them.
\* the edges of a GraphDB graph
GraphDB_Edges(a) ==
    UNION {{[from |-> p[1], to |-> p[2], key |-> a[p][i].key,
             relation |-> a[p][i].relation] : i \in DOMAIN a[p]} : p \in DOMAIN a}

\* self.graph.add_edge(from_id, to_id, relation=relation)
GraphDB_add_edge(a, from_id, to_id, relation) ==
    LET kd == keydict(a, from_id, to_id)
    IN  [p \in (DOMAIN a) \cup {<<from_id, to_id>>} |->
            IF p = <<from_id, to_id>>
            THEN Append(kd, [key |-> new_edge_key(kd), relation |-> relation])
            ELSE a[p]]

\* GraphDB.create_edge, called without properties
GraphDB_create_edge(from_id, to_id, relation) ==
    /\ IF from_id \notin DOMAIN nodes \/ to_id \notin DOMAIN nodes
       THEN /\ ret' = Raise("GraphDB.create_edge", "NodeNotFoundError")
            /\ adj' = adj
       ELSE IF \E i \in DOMAIN keydict(adj, from_id, to_id) :
                    keydict(adj, from_id, to_id)[i].relation = relation
       THEN /\ ret' = Raise("GraphDB.create_edge", "DuplicateEdgeError")
            /\ adj' = adj
       ELSE /\ adj' = GraphDB_add_edge(adj, from_id, to_id, relation)
            /\ ret' = Call("GraphDB.create_edge",
                           [from |-> from_id, to |-> to_id, relation |-> relation])
    /\ UNCHANGED <<nodes, edge_id_map, auto_persist, snapshot, uuids, issued>>

GraphDB_CreateEdge ==
    /\ Called
    /\ \E from_id \in Lookups(DOMAIN nodes), to_id \in Lookups(DOMAIN nodes),
          relation \in RelTypes :
            GraphDB_create_edge(from_id, to_id, relation)

\* GraphDB.traverse
GraphDB_Traverse ==
    /\ Called
    /\ \E start_node \in Lookups(DOMAIN nodes), depth \in 0..MaxDepth,
          direction \in Directions :
            ret' = IF start_node \notin DOMAIN nodes
                   THEN Raise("GraphDB.traverse", "NodeNotFoundError")
                   ELSE Call("GraphDB.traverse",
                             [nodes |-> GraphDB_traverse(adj, start_node, depth, direction),
                              depth |-> depth, start_node |-> start_node])
    /\ UNCHANGED <<nodes, adj, edge_id_map, auto_persist, snapshot, uuids, issued>>

RECURSIVE Concat(_)
Concat(ss) == IF ss = <<>> THEN <<>> ELSE Head(ss) \o Concat(Tail(ss))

\* the edges with the relation that one pass of the loop of traverse_by_relation
\* finds at current_node, in the order it queues their far ends: for each
\* successor every matching edge to it, then for each predecessor every
\* matching edge from it
relation_edges(a, current_node, relation, direction) ==
    LET succ == SetToSeq(successors(a, current_node))
        pred == SetToSeq(predecessors(a, current_node))
        out(neighbor) ==
            LET kd == SelectSeq(a[<<current_node, neighbor>>],
                                LAMBDA data : data.relation = relation)
            IN  [i \in DOMAIN kd |-> [from |-> current_node, to |-> neighbor,
                                      key |-> kd[i].key, relation |-> kd[i].relation,
                                      neighbor |-> neighbor]]
        in(neighbor) ==
            LET kd == SelectSeq(a[<<neighbor, current_node>>],
                                LAMBDA data : data.relation = relation)
            IN  [i \in DOMAIN kd |-> [from |-> neighbor, to |-> current_node,
                                      key |-> kd[i].key, relation |-> kd[i].relation,
                                      neighbor |-> neighbor]]
    IN  (IF direction \in {"out", "both"}
         THEN Concat([i \in DOMAIN succ |-> out(succ[i])]) ELSE <<>>)
        \o (IF direction \in {"in", "both"}
            THEN Concat([i \in DOMAIN pred |-> in(pred[i])]) ELSE <<>>)

\* the while loop of GraphDB.traverse_by_relation
RECURSIVE traverse_by_relation_loop(_, _, _, _, _, _, _)
traverse_by_relation_loop(a, queue, visited_nodes, visited_edges, relation, depth, direction) ==
    IF queue = <<>> THEN [nodes |-> visited_nodes, edges |-> visited_edges]
    ELSE LET current_node  == Head(queue)[1]
             current_depth == Head(queue)[2]
         IN  IF current_node \in visited_nodes \/ current_depth > depth
             THEN traverse_by_relation_loop(a, Tail(queue), visited_nodes, visited_edges,
                                            relation, depth, direction)
             ELSE LET found == IF current_depth < depth
                               THEN relation_edges(a, current_node, relation, direction)
                               ELSE <<>>
                  IN  traverse_by_relation_loop(a,
                          Tail(queue) \o [i \in DOMAIN found |->
                                              <<found[i].neighbor, current_depth + 1>>],
                          visited_nodes \cup {current_node},
                          visited_edges \o [i \in DOMAIN found |->
                                               [from |-> found[i].from, to |-> found[i].to,
                                                key |-> found[i].key,
                                                relation |-> found[i].relation]],
                          relation, depth, direction)

\* traverse_by_relation that follows every edge, whatever its relation
traverse_by_relation_any(a, start_node, relation, depth, direction) ==
    [nodes |-> GraphDB_traverse(a, start_node, depth, direction), edges |-> <<>>]

\* GraphDB.traverse_by_relation on an existing start node: the ids of the
\* returned nodes and the returned edges
traverse_by_relation(a, start_node, relation, depth, direction) ==
    traverse_by_relation_loop(a, <<<<start_node, 0>>>>, {}, <<>>, relation, depth, direction)

GraphDB_TraverseByRelation ==
    /\ Called
    /\ \E start_node \in Lookups(DOMAIN nodes), relation \in RelTypes,
          depth \in 0..MaxDepth, direction \in Directions :
            ret' = IF start_node \notin DOMAIN nodes
                   THEN Raise("GraphDB.traverse_by_relation", "NodeNotFoundError")
                   ELSE LET r == traverse_by_relation(adj, start_node, relation,
                                                      depth, direction)
                        IN  Call("GraphDB.traverse_by_relation",
                                 [nodes |-> r.nodes, edges |-> r.edges,
                                  relation |-> relation, depth |-> depth,
                                  start_node |-> start_node])
    /\ UNCHANGED <<nodes, adj, edge_id_map, auto_persist, snapshot, uuids, issued>>

\* the edges of the stored GraphDB graph, made by create_edge: 1 -r1-> 2 -r2-> 3
GraphDB_StoredAdj ==
    (<<<<"id", 1>>, <<"id", 2>>>> :> <<[key |-> 0, relation |-> "r1"]>>)
        @@ (<<<<"id", 2>>, <<"id", 3>>>> :> <<[key |-> 0, relation |-> "r2"]>>)

\* its node ids: the ends of the stored edges and the supplied ids
GraphDBIds ==
    SuppliedIds \cup {p[1] : p \in DOMAIN GraphDB_StoredAdj}
                \cup {p[2] : p \in DOMAIN GraphDB_StoredAdj}

\* its nodes, each made by create_node
GraphDB_StoredNodes == [n \in GraphDBIds |-> [label |-> "Doc"]]

\* a GraphDB that holds the stored nodes and either no edge or the stored edges
GraphDB_Init ==
    /\ nodes = GraphDB_StoredNodes
    /\ adj \in {<<>>, GraphDB_StoredAdj}
    /\ edge_id_map = <<>>
    /\ auto_persist = FALSE
    /\ snapshot = NoFile
    /\ uuids = 0
    /\ issued = {}
    /\ calls = 0
    /\ ret = NoCall
    /\ frames = NoFrames

GraphDB_Next ==
    \/ GraphDB_CreateEdge
    \/ GraphDB_Traverse
    \/ GraphDB_TraverseByRelation

GraphDB_Spec == GraphDB_Init /\ [][GraphDB_Next]_vars

(* ------------------- graph.py: GraphDB edge and node edits ------------- *)
\* the relation argument of get_edge, update_edge and delete_edge: omitted or given
RelationArgs == {None} \cup {Some(r) : r \in RelTypes}

\* the properties update_edge is called with: a property of the caller's own,
\* as in examples.py, or the key the relation is stored under
GraphDB_Properties ==
    {[yield_tons |-> "18"]} \cup {[relation |-> r] : r \in RelTypes}

\* `relation is None or data.get('relation') == relation`
relation_matches(data, relation) ==
    relation = None \/ Some(data.relation) = relation

\* GraphDB.get_edge: the call record
GraphDB_get_edge(a, from_id, to_id, relation) ==
    IF <<from_id, to_id>> \notin DOMAIN a
    THEN Raise("GraphDB.get_edge", "EdgeNotFoundError")
    ELSE LET edges == SelectSeq(a[<<from_id, to_id>>],
                                LAMBDA data : relation_matches(data, relation))
         IN  IF edges = <<>>
             THEN Raise("GraphDB.get_edge", "EdgeNotFoundError")
             ELSE Call("GraphDB.get_edge",
                       [from |-> from_id, to |-> to_id, relation |-> relation,
                        edges |-> edges])

GraphDB_GetEdge ==
    /\ Called
    /\ \E from_id \in Lookups(DOMAIN nodes), to_id \in Lookups(DOMAIN nodes),
          relation \in RelationArgs :
            ret' = GraphDB_get_edge(adj, from_id, to_id, relation)
    /\ UNCHANGED <<nodes, adj, edge_id_map, auto_persist, snapshot, uuids, issued>>

\* dict.update(properties) on the data of one edge
dict_update(data, properties) ==
    [f \in (DOMAIN data) \cup (DOMAIN properties) |->
        IF f \in DOMAIN properties THEN properties[f] ELSE data[f]]

\* GraphDB.update_edge
GraphDB_update_edge(from_id, to_id, properties, relation) ==
    /\ IF <<from_id, to_id>> \notin DOMAIN adj
       THEN /\ ret' = Raise("GraphDB.update_edge", "EdgeNotFoundError")
            /\ adj' = adj
       ELSE LET kd == adj[<<from_id, to_id>>]
                updated == [i \in DOMAIN kd |->
                               IF relation_matches(kd[i], relation)
                               THEN dict_update(kd[i], properties) ELSE kd[i]]
            IN  /\ adj' = [adj EXCEPT ![<<from_id, to_id>>] = updated]
                /\ ret' = IF \E i \in DOMAIN kd : relation_matches(kd[i], relation)
                          THEN Call("GraphDB.update_edge",
                                    [from |-> from_id, to |-> to_id,
                                     relation |-> relation, properties |-> properties])
                          ELSE Raise("GraphDB.update_edge", "EdgeNotFoundError")
    /\ UNCHANGED <<nodes, edge_id_map, auto_persist, snapshot, uuids, issued>>

GraphDB_UpdateEdge ==
    /\ Called
    /\ \E from_id \in Lookups(DOMAIN nodes), to_id \in Lookups(DOMAIN nodes),
          properties \in GraphDB_Properties, relation \in RelationArgs :
            GraphDB_update_edge(from_id, to_id, properties, relation)

\* MultiDiGraph.remove_edge(u, v) without a key: popitem() on the key dict
\* drops the edge added last, and the pair goes when that was its only edge
remove_edge_popitem(a, s, t) ==
    LET kd   == SubSeq(a[<<s, t>>], 1, Len(a[<<s, t>>]) - 1)
        keep == IF kd = <<>> THEN (DOMAIN a) \ {<<s, t>>} ELSE DOMAIN a
    IN  [p \in keep |-> IF p = <<s, t>> THEN kd ELSE a[p]]

\* `for key in keys_to_remove: self.graph.remove_edge(from_id, to_id, key)`
RECURSIVE remove_edge_keys(_, _, _, _)
remove_edge_keys(a, s, t, keys_to_remove) ==
    IF keys_to_remove = <<>> THEN a
    ELSE remove_edge_keys(remove_edge(a, s, t, Head(keys_to_remove)), s, t,
                          Tail(keys_to_remove))

\* GraphDB.delete_edge
GraphDB_delete_edge(from_id, to_id, relation) ==
    /\ IF <<from_id, to_id>> \notin DOMAIN adj
       THEN /\ ret' = Raise("GraphDB.delete_edge", "EdgeNotFoundError")
            /\ adj' = adj
       ELSE IF relation = None
       THEN /\ adj' = remove_edge_popitem(adj, from_id, to_id)
            /\ ret' = Call("GraphDB.delete_edge",
                           [from |-> from_id, to |-> to_id, relation |-> relation])
       ELSE LET matching == SelectSeq(adj[<<from_id, to_id>>],
                                LAMBDA data : relation_matches(data, relation))
                keys_to_remove == [i \in DOMAIN matching |-> matching[i].key]
            IN  IF keys_to_remove = <<>>
                THEN /\ ret' = Raise("GraphDB.delete_edge", "EdgeNotFoundError")
                     /\ adj' = adj
                ELSE /\ adj' = remove_edge_keys(adj, from_id, to_id, keys_to_remove)
                     /\ ret' = Call("GraphDB.delete_edge",
                                    [from |-> from_id, to |-> to_id,
                                     relation |-> relation])
    /\ UNCHANGED <<nodes, edge_id_map, auto_persist, snapshot, uuids, issued>>

GraphDB_DeleteEdge ==
    /\ Called
    /\ \E from_id \in Lookups(DOMAIN nodes), to_id \in Lookups(DOMAIN nodes),
          relation \in RelationArgs :
            GraphDB_delete_edge(from_id, to_id, relation)

\* GraphDB.delete_node
GraphDB_delete_node(node_id) ==
    /\ IF node_id \notin DOMAIN nodes
       THEN /\ ret' = Raise("GraphDB.delete_node", "NodeNotFoundError")
            /\ UNCHANGED <<nodes, adj>>
       ELSE /\ nodes' = remove_node(nodes, node_id)
            /\ adj' = remove_node_adj(adj, node_id)
            /\ ret' = Call("GraphDB.delete_node", [node_id |-> node_id])
    /\ UNCHANGED <<edge_id_map, auto_persist, snapshot, uuids, issued>>

GraphDB_DeleteNode ==
    /\ Called
    /\ \E node_id \in Lookups(DOMAIN nodes) : GraphDB_delete_node(node_id)

\* the stored GraphDB graph after create_edge("1", "2", "r2"): two edges 1 -> 2
GraphDB_ParallelAdj ==
    GraphDB_add_edge(GraphDB_StoredAdj, <<"id", 1>>, <<"id", 2>>, "r2")

\* a GraphDB that holds the stored nodes and no edge, the stored edges, or the
\* stored edges and the parallel one
GraphDBEdit_Init ==
    /\ nodes = GraphDB_StoredNodes
    /\ adj \in {<<>>, GraphDB_StoredAdj, GraphDB_ParallelAdj}
    /\ edge_id_map = <<>>
    /\ auto_persist = FALSE
    /\ snapshot = NoFile
    /\ uuids = 0
    /\ issued = {}
    /\ calls = 0
    /\ ret = NoCall
    /\ frames = NoFrames

GraphDBEdit_Next ==
    \/ GraphDB_CreateEdge
    \/ GraphDB_GetEdge
    \/ GraphDB_UpdateEdge
    \/ GraphDB_DeleteEdge
    \/ GraphDB_DeleteNode

GraphDBEdit_Spec == GraphDBEdit_Init /\ [][GraphDBEdit_Next]_vars

(* ---------------- graph_db.py: compute_graph_scores -------------------- *)
RECURSIVE GCD(_, _)
GCD(m, n) == IF n = 0 THEN m ELSE GCD(n, m % n)

\* the float m / n for n > 0, kept as the fraction <<numerator, denominator>>
\* in lowest terms: equal quotients are equal values
Div(m, n) == <<m \div GCD(m, n), n \div GCD(m, n)>>

\* float('inf')
Inf == <<1, 0>>

\* d[k] = v on a dict
setitem(d, k, v) == [i \in (DOMAIN d) \cup {k} |-> IF i = k THEN v ELSE d[i]]

\* pushes that follow only the first of the parallel edges between two nodes
score_pushes_first_edge(a, node_id, hop_distance, accumulated_weight) ==
    LET succ == SetToSeq(successors(a, node_id))
        pred == SetToSeq(predecessors(a, node_id))
    IN  [i \in DOMAIN succ |->
            <<succ[i], hop_distance + 1,
              accumulated_weight + a[<<node_id, succ[i]>>][1].weight>>]
        \o [i \in DOMAIN pred |->
            <<pred[i], hop_distance + 1,
              accumulated_weight + a[<<pred[i], node_id>>][1].weight>>]

\* the entries one pass of the loop of compute_graph_scores appends to the
\* queue: for each successor one entry per parallel edge to it, then for each
\* predecessor one entry per parallel edge from it
score_pushes(a, node_id, hop_distance, accumulated_weight) ==
    LET succ == SetToSeq(successors(a, node_id))
        pred == SetToSeq(predecessors(a, node_id))
        entries(p, neighbor) ==
            [i \in DOMAIN a[p] |->
                <<neighbor, hop_distance + 1, accumulated_weight + a[p][i].weight>>]
    IN  Concat([i \in DOMAIN succ |-> entries(<<node_id, succ[i]>>, succ[i])])
        \o Concat([i \in DOMAIN pred |-> entries(<<pred[i], node_id>>, pred[i])])

\* a loop that scores a node again each time a path reaches it
RECURSIVE compute_graph_scores_loop_every_path(_, _, _, _, _)
compute_graph_scores_loop_every_path(a, queue, visited, scores, depth) ==
    IF queue = <<>> THEN scores
    ELSE LET node_id            == Head(queue)[1]
             hop_distance       == Head(queue)[2]
             accumulated_weight == Head(queue)[3]
         IN  IF hop_distance > depth
             THEN compute_graph_scores_loop_every_path(a, Tail(queue), visited, scores, depth)
             ELSE compute_graph_scores_loop_every_path(a,
                      Tail(queue) \o (IF hop_distance < depth
                                      THEN score_pushes(a, node_id, hop_distance,
                                                        accumulated_weight)
                                      ELSE <<>>),
                      setitem(visited, node_id, <<hop_distance, accumulated_weight>>),
                      setitem(scores, node_id,
                              IF hop_distance = 0 THEN Inf
                              ELSE Div(accumulated_weight, hop_distance)),
                      depth)

\* the while loop of compute_graph_scores; queue entries are
\* <<node_id, hop_distance, accumulated_weight>>, visited maps a node to its
\* best <<hop_distance, accumulated_weight>> so far
RECURSIVE compute_graph_scores_loop(_, _, _, _, _)
compute_graph_scores_loop(a, queue, visited, scores, depth) ==
    IF queue = <<>> THEN scores
    ELSE LET node_id            == Head(queue)[1]
             hop_distance       == Head(queue)[2]
             accumulated_weight == Head(queue)[3]
             better ==
                 \/ node_id \notin DOMAIN visited
                 \/ hop_distance < visited[node_id][1]
                 \/ /\ hop_distance = visited[node_id][1]
                    /\ accumulated_weight > visited[node_id][2]
         IN  IF hop_distance > depth \/ ~better
             THEN compute_graph_scores_loop(a, Tail(queue), visited, scores, depth)
             ELSE compute_graph_scores_loop(a,
                      Tail(queue) \o (IF hop_distance < depth
                                      THEN score_pushes(a, node_id, hop_distance,
                                                        accumulated_weight)
                                      ELSE <<>>),
                      setitem(visited, node_id, <<hop_distance, accumulated_weight>>),
                      setitem(scores, node_id,
                              IF hop_distance = 0 THEN Inf
                              ELSE Div(accumulated_weight, hop_distance)),
                      depth)

\* compute_graph_scores that explores one level further than asked
compute_graph_scores_one_more(ns, a, start_id, depth) ==
    IF start_id \notin DOMAIN ns THEN <<>>
    ELSE compute_graph_scores_loop(a, <<<<start_id, 0, 0>>>>, <<>>, <<>>, depth + 1)

\* GraphDatabase.compute_graph_scores: the dict node id -> score
compute_graph_scores(ns, a, start_id, depth) ==
    IF start_id \notin DOMAIN ns THEN <<>>
    ELSE compute_graph_scores_loop(a, <<<<start_id, 0, 0>>>>, <<>>, <<>>, depth)

\* a scoring call that persists like a mutating call
ComputeGraphScores_persists ==
    /\ Called
    /\ \E start_id \in Lookups(DOMAIN nodes), depth \in 0..(MaxDepth + 1) :
            ret' = Call("compute_graph_scores",
                        [start_id |-> start_id, depth |-> depth,
                         scores |-> compute_graph_scores(nodes, adj, start_id, depth)])
    /\ snapshot' = persist(auto_persist, nodes, adj, snapshot)
    /\ UNCHANGED <<nodes, adj, edge_id_map, auto_persist, uuids, issued>>

ComputeGraphScores ==
    /\ Called
    /\ \E start_id \in Lookups(DOMAIN nodes), depth \in 0..(MaxDepth + 1) :
            ret' = Call("compute_graph_scores",
                        [start_id |-> start_id, depth |-> depth,
                         scores |-> compute_graph_scores(nodes, adj, start_id, depth)])
    /\ UNCHANGED <<nodes, adj, edge_id_map, auto_persist, snapshot, uuids, issued>>

(* ------------------- scoring as a function of the graph ---------------- *)
\* compute_graph_scores reads the graph and changes nothing, so it is checked
\* from every graph of a family. The edges of test_scoring, as
\* <<source, target, weight>> with the weight in units of 1.5:
\* 1 -> 2 with weight 3.0 and 1 -> 3 with weight 1.5
ScoreStoredEdges == <<<<<<"id", 1>>, <<"id", 2>>, 2>>, <<<<"id", 1>>, <<"id", 3>>, 1>>>>

\* the node ids: the ends of those edges and the supplied ids
ScoreIds ==
    SuppliedIds \cup {ScoreStoredEdges[i][1] : i \in DOMAIN ScoreStoredEdges}
                \cup {ScoreStoredEdges[i][2] : i \in DOMAIN ScoreStoredEdges}

ScoreNodes ==
    [i \in ScoreIds |-> NodeAttrs(GraphNode("t1", None, None, Some(i), i))]

\* the weights of the other edges: those of create_edge, and zero
ScoreWeights == Weights \cup {0}

\* the graph and the edge-id index after create_edge has made the edges es in order
RECURSIVE ScoreGraph(_)
ScoreGraph(es) ==
    IF es = <<>> THEN [adj |-> <<>>, edge_id_map |-> <<>>]
    ELSE LET g    == ScoreGraph(SubSeq(es, 1, Len(es) - 1))
             e    == es[Len(es)]
             edge == GraphRelationship(e[1], e[2], "related", e[3], None, Uuid(Len(es)))
             key  == new_edge_key(keydict(g.adj, e[1], e[2]))
         IN  [adj         |-> add_edge(g.adj, e[1], e[2], edge),
              edge_id_map |-> setitem(g.edge_id_map, edge.id, <<e[1], e[2], key>>)]

\* the subsets of S that have at most k elements
RECURSIVE AtMost(_, _)
AtMost(S, k) ==
    IF k = 0 THEN {{}}
    ELSE AtMost(S, k - 1) \cup {T \cup {x} : T \in AtMost(S, k - 1), x \in S}

\* the stored nodes, with no edge or the stored edges, and at most MaxCalls
\* further edges between any two of them (self-loops and parallel edges
\* included), each made by one create_edge call of this run
Scores_Init ==
    /\ nodes = ScoreNodes
    /\ \E base \in {<<>>, ScoreStoredEdges},
          extra \in AtMost(ScoreIds \X ScoreIds \X ScoreWeights, MaxCalls) :
            /\ adj = ScoreGraph(base \o SetToSeq(extra)).adj
            /\ edge_id_map = ScoreGraph(base \o SetToSeq(extra)).edge_id_map
            /\ calls = Cardinality(extra)
    /\ auto_persist = FALSE
    /\ snapshot = NoFile
    /\ uuids = Cardinality(DOMAIN edge_id_map)
    /\ issued = DOMAIN edge_id_map
    /\ ret = NoCall
    /\ frames = NoFrames

Scores_Next == ComputeGraphScores

Scores_Spec == Scores_Init /\ [][Scores_Next]_vars

(* ---------------- the loops of traverse and compute_graph_scores ------- *)
\* the worker threads the request layer runs calls on
Workers == {"w1", "w2"}

\* the thread that takes the next call
FreeWorker == CHOOSE w \in Workers \ DOMAIN frames : TRUE

\* a call starts on a free thread
Enter == calls < MaxCalls /\ calls' = calls + 1 /\ DOMAIN frames # Workers

\* the calls in progress once thread w has the frame f
Push(w, f) == [v \in (DOMAIN frames) \cup {w} |-> IF v = w THEN f ELSE frames[v]]

\* the calls in progress once the call of thread w has returned or raised
Pop(w) == [v \in (DOMAIN frames) \ {w} |-> frames[v]]

\* one pass of `while queue:` in traverse that leaves a visited node at the
\* head of the queue
traverse_iteration_no_pop(a, f) ==
    LET node_id       == Head(f.queue)[1]
        current_depth == Head(f.queue)[2]
    IN  IF node_id \in f.visited THEN f
        ELSE LET visited2  == f.visited \cup {node_id}
                 neighbors == IF current_depth < f.depth
                              THEN (successors(a, node_id) \cup predecessors(a, node_id))
                                       \ visited2
                              ELSE {}
                 pushed    == SetToSeq(neighbors)
             IN  [f EXCEPT !.queue = Tail(f.queue) \o [i \in DOMAIN pushed |->
                                                         <<pushed[i], current_depth + 1>>],
                           !.visited = visited2,
                           !.result = Append(f.result, node_id)]

\* one pass of `while queue:` in GraphDatabase.traverse
traverse_iteration(a, f) ==
    LET node_id       == Head(f.queue)[1]
        current_depth == Head(f.queue)[2]
    IN  IF node_id \in f.visited THEN [f EXCEPT !.queue = Tail(f.queue)]
        ELSE LET visited2  == f.visited \cup {node_id}
                 neighbors == IF current_depth < f.depth
                              THEN (successors(a, node_id) \cup predecessors(a, node_id))
                                       \ visited2
                              ELSE {}
                 pushed    == SetToSeq(neighbors)
             IN  [f EXCEPT !.queue = Tail(f.queue) \o [i \in DOMAIN pushed |->
                                                         <<pushed[i], current_depth + 1>>],
                           !.visited = visited2,
                           !.result = Append(f.result, node_id)]

\* traverse up to its loop: [] for a start that is not a node
TraverseEnter ==
    /\ Enter
    /\ \E start_id \in Lookups(DOMAIN nodes), depth \in 0..(MaxDepth + 1) :
          IF start_id \notin DOMAIN nodes
          THEN /\ ret' = Call("traverse", <<>>)
               /\ frames' = frames
          ELSE /\ frames' = Push(FreeWorker,
                                 [op |-> "traverse", start_id |-> start_id,
                                  depth |-> depth, queue |-> <<<<start_id, 0>>>>,
                                  visited |-> {}, result |-> <<>>])
               /\ ret' = ret
    /\ UNCHANGED <<nodes, adj, edge_id_map, auto_persist, snapshot, uuids, issued>>

TraverseIteration ==
    /\ \E w \in DOMAIN frames :
          /\ frames[w].op = "traverse"
          /\ frames[w].queue # <<>>
          /\ frames' = [frames EXCEPT ![w] = traverse_iteration(adj, frames[w])]
    /\ UNCHANGED <<nodes, adj, edge_id_map, auto_persist, snapshot, uuids, issued,
                   calls, ret>>

\* `return result` once the queue is empty
TraverseReturn ==
    /\ \E w \in DOMAIN frames :
          /\ frames[w].op = "traverse"
          /\ frames[w].queue = <<>>
          /\ ret' = Call("traverse", frames[w].result)
          /\ frames' = Pop(w)
    /\ UNCHANGED <<nodes, adj, edge_id_map, auto_persist, snapshot, uuids, issued, calls>>

\* one pass of `while queue:` in GraphDatabase.compute_graph_scores
compute_graph_scores_iteration(a, f) ==
    LET node_id            == Head(f.queue)[1]
        hop_distance       == Head(f.queue)[2]
        accumulated_weight == Head(f.queue)[3]
        better ==
            \/ node_id \notin DOMAIN f.visited
            \/ hop_distance < f.visited[node_id][1]
            \/ /\ hop_distance = f.visited[node_id][1]
               /\ accumulated_weight > f.visited[node_id][2]
    IN  IF hop_distance > f.depth \/ ~better THEN [f EXCEPT !.queue = Tail(f.queue)]
        ELSE [f EXCEPT
                !.queue = Tail(f.queue) \o (IF hop_distance < f.depth
                                            THEN score_pushes(a, node_id, hop_distance,
                                                              accumulated_weight)
                                            ELSE <<>>),
                !.visited = setitem(f.visited, node_id,
                                    <<hop_distance, accumulated_weight>>),
                !.scores = setitem(f.scores, node_id,
                                   IF hop_distance = 0 THEN Inf
                                   ELSE Div(accumulated_weight, hop_distance))]

\* compute_graph_scores up to its loop: {} for a start that is not a node
ScoresEnter ==
    /\ Enter
    /\ \E start_id \in Lookups(DOMAIN nodes), depth \in 0..(MaxDepth + 1) :
          IF start_id \notin DOMAIN nodes
          THEN /\ ret' = Call("compute_graph_scores",
                              [start_id |-> start_id, depth |-> depth, scores |-> <<>>])
               /\ frames' = frames
          ELSE /\ frames' = Push(FreeWorker,
                                 [op |-> "compute_graph_scores", start_id |-> start_id,
                                  depth |-> depth, queue |-> <<<<start_id, 0, 0>>>>,
                                  visited |-> <<>>, scores |-> <<>>])
               /\ ret' = ret
    /\ UNCHANGED <<nodes, adj, edge_id_map, auto_persist, snapshot, uuids, issued>>

ScoresIteration ==
    /\ \E w \in DOMAIN frames :
          /\ frames[w].op = "compute_graph_scores"
          /\ frames[w].queue # <<>>
          /\ frames' = [frames EXCEPT
                          ![w] = compute_graph_scores_iteration(adj, frames[w])]
    /\ UNCHANGED <<nodes, adj, edge_id_map, auto_persist, snapshot, uuids, issued,
                   calls, ret>>

\* `return scores` once the queue is empty
ScoresReturn ==
    /\ \E w \in DOMAIN frames :
          /\ frames[w].op = "compute_graph_scores"
          /\ frames[w].queue = <<>>
          /\ ret' = Call("compute_graph_scores",
                         [start_id |-> frames[w].start_id, depth |-> frames[w].depth,
                          scores |-> frames[w].scores])
          /\ frames' = Pop(w)
    /\ UNCHANGED <<nodes, adj, edge_id_map, auto_persist, snapshot, uuids, issued, calls>>

\* the stored nodes, with no edge or the stored edges, and at most
\* MaxCalls - 1 further edges of weight 1 between any two of them (self-loops,
\* parallel edges and cycles included); one call is left to make
Loop_Init ==
    /\ nodes = ScoreNodes
    /\ \E base \in {<<>>, ScoreStoredEdges},
          extra \in AtMost(ScoreIds \X ScoreIds \X {1}, MaxCalls - 1) :
            /\ adj = ScoreGraph(base \o SetToSeq(extra)).adj
            /\ edge_id_map = ScoreGraph(base \o SetToSeq(extra)).edge_id_map
    /\ calls = MaxCalls - 1
    /\ auto_persist = FALSE
    /\ snapshot = NoFile
    /\ uuids = Cardinality(DOMAIN edge_id_map)
    /\ issued = DOMAIN edge_id_map
    /\ ret = NoCall
    /\ frames = NoFrames

Loop_Next ==
    \/ TraverseEnter
    \/ TraverseIteration
    \/ TraverseReturn
    \/ ScoresEnter
    \/ ScoresIteration
    \/ ScoresReturn

\* a thread that is inside a loop goes on to execute it
Loop_Spec == Loop_Init /\ [][Loop_Next]_vars /\ WF_vars(Loop_Next)

(* ------------- the request layer: handlers on worker threads ----------- *)
\* The handlers of app/routers are plain `def` functions that share the one
\* HybridRetrievalService of get_service; the framework runs each request on
\* a worker thread, and neither the handlers, the service nor GraphDatabase
\* takes a lock. A step below is a stretch of one call that runs without a
\* thread switch; a frame is a call between two of its steps.

\* DELETE /nodes/{node_id} up to graph.remove_node: the service counts the
\* edges, GraphDatabase.delete_node checks the node and drops the index
\* entries of its edges
DeleteNodeEnter ==
    /\ Enter
    /\ \E node_id \in Lookups(DOMAIN nodes) :
          IF node_id \notin DOMAIN nodes
          THEN /\ ret' = Call("delete_node", None)
               /\ UNCHANGED <<edge_id_map, frames>>
          ELSE /\ edge_id_map' = delete_node_map(edge_id_map, node_id)
               /\ frames' = Push(FreeWorker,
                     [op |-> "delete_node", pc |-> "remove_node", node_id |-> node_id,
                      edges_removed |-> out_degree(adj, node_id) + in_degree(adj, node_id)])
               /\ ret' = ret
    /\ UNCHANGED <<nodes, adj, auto_persist, snapshot, uuids, issued>>

\* self.graph.remove_node(node_id): NetworkXError when the node is gone by now
DeleteNodeRemove ==
    /\ \E w \in DOMAIN frames :
          /\ frames[w].op = "delete_node" /\ frames[w].pc = "remove_node"
          /\ IF frames[w].node_id \notin DOMAIN nodes
             THEN /\ ret' = Raise("delete_node", "NetworkXError")
                  /\ frames' = Pop(w)
                  /\ UNCHANGED <<nodes, adj>>
             ELSE /\ nodes' = remove_node(nodes, frames[w].node_id)
                  /\ adj' = remove_node_adj(adj, frames[w].node_id)
                  /\ frames' = [frames EXCEPT ![w].pc = "persist"]
                  /\ ret' = ret
    /\ UNCHANGED <<edge_id_map, auto_persist, snapshot, uuids, issued, calls>>

\* `if self.auto_persist: self.persist()`, `return True` and the response
DeleteNodeReturn ==
    /\ \E w \in DOMAIN frames :
          /\ frames[w].op = "delete_node" /\ frames[w].pc = "persist"
          /\ PersistAndReturn("delete_node", Some(frames[w].edges_removed),
                              auto_persist, nodes, adj)
          /\ frames' = Pop(w)
    /\ UNCHANGED <<nodes, adj, edge_id_map, auto_persist, uuids, issued, calls>>

\* POST /edges up to the index update: the endpoint check, the new
\* GraphRelationship and graph.add_edge
CreateEdgeEnter ==
    /\ Enter
    /\ \E source_id \in Lookups(DOMAIN nodes), target_id \in Lookups(DOMAIN nodes),
          rel_type \in RelTypes, weight \in Weights :
          IF endpoint_missing(nodes, source_id, target_id)
          THEN /\ ret' = Call("create_edge", None)
               /\ UNCHANGED <<adj, uuids, issued, frames>>
          ELSE LET edge == GraphRelationship(source_id, target_id, rel_type, weight,
                                             None, uuid4(uuids))
               IN  /\ uuids' = uuids + 1
                   /\ issued' = issued \cup {edge.id}
                   /\ adj' = add_edge(adj, source_id, target_id, edge)
                   /\ frames' = Push(FreeWorker,
                         [op |-> "create_edge", pc |-> "index", edge |-> edge,
                          key |-> new_edge_key(keydict(adj, source_id, target_id))])
                   /\ ret' = ret
    /\ UNCHANGED <<nodes, edge_id_map, auto_persist, snapshot>>

\* self._edge_id_map[edge.id] = (source_id, target_id, key)
CreateEdgeIndex ==
    /\ \E w \in DOMAIN frames :
          /\ frames[w].op = "create_edge" /\ frames[w].pc = "index"
          /\ edge_id_map' = setitem(edge_id_map, frames[w].edge.id,
                                    <<frames[w].edge.source, frames[w].edge.target,
                                      frames[w].key>>)
          /\ frames' = [frames EXCEPT ![w].pc = "persist"]
    /\ UNCHANGED <<nodes, adj, auto_persist, snapshot, uuids, issued, calls, ret>>

\* `if self.auto_persist: self.persist()`, `return edge` and the response
CreateEdgeReturn ==
    /\ \E w \in DOMAIN frames :
          /\ frames[w].op = "create_edge" /\ frames[w].pc = "persist"
          /\ PersistAndReturn("create_edge", Some(frames[w].edge), auto_persist,
                              nodes, adj)
          /\ frames' = Pop(w)
    /\ UNCHANGED <<nodes, adj, edge_id_map, auto_persist, uuids, issued, calls>>

\* GET /search/graph up to its loop: the get_node check
GraphTraversalEnter ==
    /\ Enter
    /\ \E start_id \in Lookups(DOMAIN nodes), depth \in 0..MaxDepth :
          IF get_node_raises(nodes, start_id)
          THEN ret' = Raise("graph_traversal", "KeyError") /\ frames' = frames
          ELSE IF get_node(nodes, start_id) = None
          THEN ret' = Call("graph_traversal", None) /\ frames' = frames
          ELSE /\ frames' = Push(FreeWorker, [op |-> "graph_traversal",
                                              start_id |-> start_id, depth |-> depth])
               /\ ret' = ret
    /\ UNCHANGED <<nodes, adj, edge_id_map, auto_persist, snapshot, uuids, issued>>

\* the loop of graph_traversal over the graph as it is now, and the response
GraphTraversalReturn ==
    /\ \E w \in DOMAIN frames :
          /\ frames[w].op = "graph_traversal"
          /\ ret' = IF graph_traversal_results(adj, frames[w].start_id,
                                               frames[w].depth) # <<>>
                    THEN Raise("graph_traversal", "ImportError")
                    ELSE Raise("graph_traversal", "ValidationError")
          /\ frames' = Pop(w)
    /\ UNCHANGED <<nodes, adj, edge_id_map, auto_persist, snapshot, uuids, issued, calls>>

\* HybridRetrievalService.__init__: GraphDatabase(auto_persist=True) on the
\* service's file
Server_Init == Init /\ auto_persist /\ snapshot \in {NoFile, StoredFile}

Server_Next ==
    \/ DeleteNodeEnter
    \/ DeleteNodeRemove
    \/ DeleteNodeReturn
    \/ CreateEdgeEnter
    \/ CreateEdgeIndex
    \/ CreateEdgeReturn
    \/ GraphTraversalEnter
    \/ GraphTraversalReturn

Server_Spec == Server_Init /\ [][Server_Next]_vars

(* ------------------- service.py: process_pdf_and_search ---------------- *)
\* the numbers of chunks the text splitter cuts an uploaded PDF into
ChunkCounts == {0, 1, 2}

\* the metadata of chunk i of the uploaded file
ChunkMetadata(i) == {<<"source", "doc.txt">>, <<"chunk_index", i>>}

\* process_pdf_and_search up to its loop: the text is extracted and split,
\* original_auto_persist = self.graph_db.auto_persist, and the flag is cleared
PdfEnter ==
    /\ Enter
    /\ \E chunks \in ChunkCounts :
          frames' = Push(FreeWorker,
                         [op |-> "process_pdf_and_search", pc |-> "loop",
                          original_auto_persist |-> auto_persist,
                          chunks |-> chunks, i |-> 0, prev_node_id |-> None,
                          exc |-> ""])
    /\ auto_persist' = FALSE
    /\ UNCHANGED <<nodes, adj, edge_id_map, snapshot, uuids, issued, ret>>

\* one pass of `for i, chunk in enumerate(chunks)`: graph_db.create_node with
\* a new uuid, then create_edge from the previous chunk; each persists when
\* the flag is set at that moment
PdfChunk ==
    /\ \E w \in DOMAIN frames :
          LET f       == frames[w]
              node    == GraphNode("t1", Some(ChunkMetadata(f.i)), None,
                                   Some(uuid4(uuids)), uuid4(uuids))
              linked  == f.prev_node_id # None
              edge    == GraphRelationship(f.prev_node_id[1], node.id, "next_chunk", 1,
                                           None, uuid4(uuids + 1))
          IN  /\ f.op = "process_pdf_and_search" /\ f.pc = "loop" /\ f.i < f.chunks
              /\ nodes' = add_node(nodes, node.id, NodeAttrs(node))
              /\ adj' = IF linked THEN add_edge(adj, edge.source, edge.target, edge)
                        ELSE adj
              /\ edge_id_map' = IF linked
                                THEN setitem(edge_id_map, edge.id,
                                             <<edge.source, edge.target,
                                               new_edge_key(keydict(adj, edge.source,
                                                                    edge.target))>>)
                                ELSE edge_id_map
              /\ issued' = IF linked THEN issued \cup {edge.id} ELSE issued
              /\ uuids' = IF linked THEN uuids + 2 ELSE uuids + 1
              /\ snapshot' = persist(auto_persist, nodes', adj', snapshot)
              /\ frames' = [frames EXCEPT ![w].i = f.i + 1,
                                          ![w].prev_node_id = Some(node.id)]
    /\ UNCHANGED <<auto_persist, calls, ret>>

\* an exception raised inside the loop body, MemoryError for one: control
\* passes to the finally block
PdfChunkRaises ==
    /\ \E w \in DOMAIN frames :
          /\ frames[w].op = "process_pdf_and_search" /\ frames[w].pc = "loop"
          /\ frames[w].i < frames[w].chunks
          /\ frames' = [frames EXCEPT ![w].pc = "finally", ![w].exc = "MemoryError"]
    /\ UNCHANGED <<nodes, adj, edge_id_map, auto_persist, snapshot, uuids, issued,
                   calls, ret>>

\* the loop has run through its chunks
PdfLoopEnds ==
    /\ \E w \in DOMAIN frames :
          /\ frames[w].op = "process_pdf_and_search" /\ frames[w].pc = "loop"
          /\ frames[w].i = frames[w].chunks
          /\ frames' = [frames EXCEPT ![w].pc = "finally"]
    /\ UNCHANGED <<nodes, adj, edge_id_map, auto_persist, snapshot, uuids, issued,
                   calls, ret>>

\* the first statement of the finally block: the flag gets the value read on
\* entry
PdfRestore ==
    /\ \E w \in DOMAIN frames :
          /\ frames[w].op = "process_pdf_and_search" /\ frames[w].pc = "finally"
          /\ auto_persist' = frames[w].original_auto_persist
          /\ frames' = [frames EXCEPT ![w].pc = "save"]
    /\ UNCHANGED <<nodes, adj, edge_id_map, snapshot, uuids, issued, calls, ret>>

\* the rest of the finally block: save() when the flag, read again, is set;
\* an exception of the loop then propagates
PdfSave ==
    /\ \E w \in DOMAIN frames :
          LET f == frames[w]
          IN  /\ f.op = "process_pdf_and_search" /\ f.pc = "save"
              /\ snapshot' = IF auto_persist THEN save(nodes, adj) ELSE snapshot
              /\ IF f.exc # ""
                 THEN ret' = Raise("process_pdf_and_search", f.exc) /\ frames' = Pop(w)
                 ELSE ret' = ret /\ frames' = [frames EXCEPT ![w].pc = "search"]
    /\ UNCHANGED <<nodes, adj, edge_id_map, auto_persist, uuids, issued, calls>>

\* the rest of the call: with chunks, self.vector_db.add_documents is looked
\* up, a method VectorDatabase does not define; without, the search over the
\* file's chunks finds nothing and None is returned
PdfReturn ==
    /\ \E w \in DOMAIN frames :
          /\ frames[w].op = "process_pdf_and_search" /\ frames[w].pc = "search"
          /\ ret' = IF frames[w].chunks > 0
                    THEN Raise("process_pdf_and_search", "AttributeError")
                    ELSE Call("process_pdf_and_search", None)
          /\ frames' = Pop(w)
    /\ UNCHANGED <<nodes, adj, edge_id_map, auto_persist, snapshot, uuids, issued, calls>>

Pdf_Init == Server_Init

Pdf_Next ==
    \/ PdfEnter
    \/ PdfChunk
    \/ PdfChunkRaises
    \/ PdfLoopEnds
    \/ PdfRestore
    \/ PdfSave
    \/ PdfReturn

Pdf_Spec == Pdf_Init /\ [][Pdf_Next]_vars

(* ------------------- service.py: hybrid_search -------------------------- *)
\* hybrid_search is modelled from the list vector_search hands it (service.py
\* 246-348). A similarity is a float that vector_search rounded to 4 decimal
\* places and is kept as its number of ten-thousandths; a graph score is kept
\* in the same unit; a weight is kept as its number of tenths, so
\* similarity * weight counts hundred-thousandths. The text and the metadata
\* of an entry are carried through unchanged and are left out.

\* the graph scores 1.0 and 0.5
One == 10000
Half == 5000

\* an insertion-ordered dict is the sequence of its <<key, value>> items
odict_keys(d) == {d[i][1] : i \in DOMAIN d}
odict_get(d, k) == d[CHOOSE i \in DOMAIN d : d[i][1] = k][2]
\* d[k] = v: a new key goes last, an existing key keeps its place
odict_set(d, k, v) ==
    IF k \in odict_keys(d)
    THEN [i \in DOMAIN d |-> IF d[i][1] = k THEN <<k, v>> ELSE d[i]]
    ELSE Append(d, <<k, v>>)

\* the first loop of hybrid_search: the candidates dict of the vector results
RECURSIVE hybrid_candidates(_)
hybrid_candidates(vector_results) ==
    IF vector_results = <<>> THEN <<>>
    ELSE LET res == vector_results[Len(vector_results)]
         IN  odict_set(hybrid_candidates(SubSeq(vector_results, 1, Len(vector_results) - 1)),
                       res.node_id,
                       [cosine_similarity |-> res.cosine_similarity, graph_score |-> 0])

\* the second loop: every start node not yet visited is queued at depth 0 and
\* scored 1.0
RECURSIVE hybrid_seeds(_)
hybrid_seeds(start_nodes) ==
    IF start_nodes = <<>>
    THEN [visited |-> <<>>, queue |-> <<>>, graph_scores_map |-> <<>>]
    ELSE LET s   == hybrid_seeds(SubSeq(start_nodes, 1, Len(start_nodes) - 1))
             nid == start_nodes[Len(start_nodes)]
         IN  IF nid \in DOMAIN s.visited THEN s
             ELSE [visited          |-> setitem(s.visited, nid, 0),
                   queue            |-> Append(s.queue, <<nid, 0>>),
                   graph_scores_map |-> odict_set(s.graph_scores_map, nid, One)]

\* a search that follows the edges forwards only
RECURSIVE hybrid_bfs_successors_only(_, _, _, _, _)
hybrid_bfs_successors_only(ns, a, queue, visited, graph_scores_map) ==
    IF queue = <<>> THEN graph_scores_map
    ELSE LET curr  == Head(queue)[1]
             d     == Head(queue)[2]
             score == IF d = 0 THEN One ELSE IF d = 1 THEN One
                      ELSE IF d = 2 THEN Half ELSE 0
             neighbors == IF d < 2 /\ curr \in DOMAIN ns
                          THEN successors(a, curr) \ DOMAIN visited
                          ELSE {}
             pushed == SetToSeq(neighbors)
         IN  IF d > 2
             THEN hybrid_bfs_successors_only(ns, a, Tail(queue), visited, graph_scores_map)
             ELSE hybrid_bfs_successors_only(ns, a,
                      Tail(queue) \o [i \in DOMAIN pushed |-> <<pushed[i], d + 1>>],
                      [n \in (DOMAIN visited) \cup neighbors |->
                          IF n \in DOMAIN visited THEN visited[n] ELSE d + 1],
                      odict_set(graph_scores_map, curr, score))

\* the while loop of the multi-source search; queue entries are <<node, depth>>
RECURSIVE hybrid_bfs(_, _, _, _, _)
hybrid_bfs(ns, a, queue, visited, graph_scores_map) ==
    IF queue = <<>> THEN graph_scores_map
    ELSE LET curr  == Head(queue)[1]
             d     == Head(queue)[2]
             score == IF d = 0 THEN One ELSE IF d = 1 THEN One
                      ELSE IF d = 2 THEN Half ELSE 0
             neighbors == IF d < 2 /\ curr \in DOMAIN ns
                          THEN (successors(a, curr) \cup predecessors(a, curr))
                                   \ DOMAIN visited
                          ELSE {}
             pushed == SetToSeq(neighbors)
         IN  IF d > 2
             THEN hybrid_bfs(ns, a, Tail(queue), visited, graph_scores_map)
             ELSE hybrid_bfs(ns, a,
                      Tail(queue) \o [i \in DOMAIN pushed |-> <<pushed[i], d + 1>>],
                      [n \in (DOMAIN visited) \cup neighbors |->
                          IF n \in DOMAIN visited THEN visited[n] ELSE d + 1],
                      odict_set(graph_scores_map, curr, score))

\* graph_scores_map when the search ends
hybrid_graph_scores(ns, a, start_nodes) ==
    LET s == hybrid_seeds(start_nodes)
    IN  hybrid_bfs(ns, a, s.queue, s.visited, s.graph_scores_map)

\* a combination that keeps the candidates only
hybrid_combine_candidates_only(ns, candidates, graph_scores_map) == candidates

\* step 3: final_candidates is the candidates, then each scored node that is
\* not a candidate and that get_node finds, with similarity 0.0; a scored
\* candidate takes its graph score
RECURSIVE hybrid_combine(_, _, _)
hybrid_combine(ns, candidates, graph_scores_map) ==
    IF graph_scores_map = <<>> THEN candidates
    ELSE LET final_candidates ==
                 hybrid_combine(ns, candidates,
                                SubSeq(graph_scores_map, 1, Len(graph_scores_map) - 1))
             nid     == graph_scores_map[Len(graph_scores_map)][1]
             g_score == graph_scores_map[Len(graph_scores_map)][2]
         IN  IF nid \notin odict_keys(final_candidates)
             THEN IF get_node(ns, nid) # None
                  THEN odict_set(final_candidates, nid,
                                 [cosine_similarity |-> 0, graph_score |-> g_score])
                  ELSE final_candidates
             ELSE odict_set(final_candidates, nid,
                            [odict_get(final_candidates, nid) EXCEPT !.graph_score = g_score])

\* a rounding that drops the fifth decimal place
round4_down(x) == x \div 10

\* round(x, 4) of a value x given in hundred-thousandths: the nearest
\* ten-thousandth, a value half-way between two going to the even one
round4(x) ==
    IF x % 10 > 5 \/ (x % 10 = 5 /\ (x \div 10) % 2 = 1) THEN x \div 10 + 1 ELSE x \div 10

\* the HybridSearchResult list before it is sorted
hybrid_results(final_candidates, vector_weight, graph_weight) ==
    [i \in DOMAIN final_candidates |->
        [node_id           |-> final_candidates[i][1],
         cosine_similarity |-> final_candidates[i][2].cosine_similarity,
         graph_score       |-> final_candidates[i][2].graph_score,
         final_score       |-> round4(final_candidates[i][2].cosine_similarity * vector_weight
                                      + final_candidates[i][2].graph_score * graph_weight)]]

\* a sort that puts an entry ahead of the earlier entries of the same score
RECURSIVE sort_by_final_score_unstable(_)
sort_by_final_score_unstable(results) ==
    IF results = <<>> THEN <<>>
    ELSE LET sorted == sort_by_final_score_unstable(SubSeq(results, 1, Len(results) - 1))
             x      == results[Len(results)]
             ahead  == SelectSeq(sorted, LAMBDA y : y.final_score > x.final_score)
             behind == SelectSeq(sorted, LAMBDA y : y.final_score <= x.final_score)
         IN  ahead \o <<x>> \o behind

\* results.sort(key=lambda x: x.final_score, reverse=True): descending, and
\* entries of the same score keep the order they had
RECURSIVE sort_by_final_score(_)
sort_by_final_score(results) ==
    IF results = <<>> THEN <<>>
    ELSE LET sorted == sort_by_final_score(SubSeq(results, 1, Len(results) - 1))
             x      == results[Len(results)]
             ahead  == SelectSeq(sorted, LAMBDA y : y.final_score >= x.final_score)
             behind == SelectSeq(sorted, LAMBDA y : y.final_score < x.final_score)
         IN  ahead \o <<x>> \o behind

\* a slice that keeps one entry more
slice_one_more(results, top_k) ==
    SubSeq(results, 1, IF top_k + 1 < Len(results) THEN top_k + 1 ELSE Len(results))

\* results[:top_k] for top_k >= 0
slice(results, top_k) ==
    SubSeq(results, 1, IF top_k < Len(results) THEN top_k ELSE Len(results))

\* the sorted list of hybrid_search before it is cut to top_k
hybrid_ranked(ns, a, vector_results, vector_weight, graph_weight) ==
    LET start_nodes == [i \in DOMAIN vector_results |-> vector_results[i].node_id]
    IN  sort_by_final_score(
            hybrid_results(hybrid_combine(ns, hybrid_candidates(vector_results),
                                          hybrid_graph_scores(ns, a, start_nodes)),
                           vector_weight, graph_weight))

\* HybridRetrievalService.hybrid_search from its vector results on
hybrid_search(ns, a, vector_results, vector_weight, graph_weight, top_k) ==
    slice(hybrid_ranked(ns, a, vector_results, vector_weight, graph_weight), top_k)

\* the id of a document of the vector index that the graph has no node for
UnknownDoc == Uuid(0)

\* the similarities of a result list, best first, in ten-thousandths
SimLists == {<<>>, <<9000>>, <<8123, 8122>>}

\* the result lists of vector_search: at most top_k documents with distinct
\* ids, best first; a document may have no node in the graph
VectorResults(ns) ==
    UNION {{[i \in DOMAIN sims |-> [node_id |-> ids[i], cosine_similarity |-> sims[i]]] :
                ids \in {f \in [DOMAIN sims -> (DOMAIN ns) \cup {UnknownDoc}] :
                            \A i, j \in DOMAIN sims : i # j => f[i] # f[j]}}
           : sims \in SimLists}

\* <<vector_weight, graph_weight>> in tenths: the defaults of
\* HybridSearchRequest, those of process_pdf_and_search, and one weight only
WeightPairs == {<<6, 4>>, <<7, 3>>, <<4, 0>>, <<0, 4>>}

\* top_k: the default of HybridSearchRequest, and a smaller one
TopKs == {2, 5}

HybridSearch ==
    /\ Called
    /\ \E vector_results \in VectorResults(nodes), w \in WeightPairs, top_k \in TopKs :
            /\ Len(vector_results) <= top_k
            /\ ret' = Call("hybrid_search",
                           [vector_results |-> vector_results,
                            vector_weight |-> w[1], graph_weight |-> w[2],
                            top_k |-> top_k,
                            results |-> hybrid_search(nodes, adj, vector_results,
                                                      w[1], w[2], top_k)])
    /\ UNCHANGED <<nodes, adj, edge_id_map, auto_persist, snapshot, uuids, issued>>

(* ------------------- hybrid_retrieval.py: graph_score ------------------ *)
GRAPH_DEPTH == 2

\* the while loop of graph_score; queue entries are <<node_id, current_depth>>
RECURSIVE graph_score_loop(_, _, _, _, _)
graph_score_loop(a, queue, visited, scores, depth) ==
    IF queue = <<>> THEN scores
    ELSE LET node_id       == Head(queue)[1]
             current_depth == Head(queue)[2]
         IN  IF node_id \in visited
             THEN graph_score_loop(a, Tail(queue), visited, scores, depth)
             ELSE LET visited2  == visited \cup {node_id}
                      score     == IF current_depth = 0 THEN One
                                   ELSE IF current_depth = 1 THEN One
                                   ELSE IF current_depth = 2 THEN Half ELSE 0
                      neighbors == IF current_depth < depth
                                   THEN (successors(a, node_id) \cup predecessors(a, node_id))
                                            \ visited2
                                   ELSE {}
                      pushed    == SetToSeq(neighbors)
                  IN  graph_score_loop(a,
                          Tail(queue) \o [i \in DOMAIN pushed |->
                                              <<pushed[i], current_depth + 1>>],
                          visited2, setitem(scores, node_id, score), depth)

\* graph_score: the dict related chunk id -> score, {} for an id that is not a node
graph_score(ns, a, chunk_id, depth) ==
    IF chunk_id \notin DOMAIN ns THEN <<>>
    ELSE graph_score_loop(a, <<<<chunk_id, 0>>>>, {}, <<>>, depth)

\* a merge that keeps the score a node got first
merge_scores_keep_first(graph_scores_combined, related_scores) ==
    [n \in (DOMAIN graph_scores_combined) \cup (DOMAIN related_scores) |->
        IF n \in DOMAIN graph_scores_combined THEN graph_scores_combined[n]
        ELSE related_scores[n]]

\* the inner loop of hybrid_retrieve: the larger score where both have the node
merge_scores(graph_scores_combined, related_scores) ==
    [n \in (DOMAIN graph_scores_combined) \cup (DOMAIN related_scores) |->
        IF n \notin DOMAIN graph_scores_combined THEN related_scores[n]
        ELSE IF n \notin DOMAIN related_scores THEN graph_scores_combined[n]
        ELSE IF related_scores[n] > graph_scores_combined[n] THEN related_scores[n]
        ELSE graph_scores_combined[n]]

\* step 2 of hybrid_retrieve: graph_scores_combined over the vector results
RECURSIVE graph_scores_combined(_, _, _)
graph_scores_combined(ns, a, vector_results) ==
    IF vector_results = <<>> THEN <<>>
    ELSE merge_scores(
             graph_scores_combined(ns, a, SubSeq(vector_results, 1,
                                                 Len(vector_results) - 1)),
             graph_score(ns, a, vector_results[Len(vector_results)].node_id,
                         GRAPH_DEPTH))

(* -------------------- fusion as a function of the graph ---------------- *)
\* the chain process_pdf_and_search makes of four chunks: an edge of weight
\* 1.0 from each chunk to the next
FusionStoredEdges ==
    <<<<<<"id", 1>>, <<"id", 2>>, 1>>, <<<<"id", 2>>, <<"id", 3>>, 1>>,
      <<<<"id", 3>>, <<"id", 4>>, 1>>>>

FusionIds ==
    SuppliedIds \cup {FusionStoredEdges[i][1] : i \in DOMAIN FusionStoredEdges}
                \cup {FusionStoredEdges[i][2] : i \in DOMAIN FusionStoredEdges}

FusionNodes ==
    [i \in FusionIds |-> NodeAttrs(GraphNode("t1", None, None, Some(i), i))]

\* a run with one call left: the chunk nodes, with no edge or the chain, and
\* the further edges of weight 1 that the calls before made between any two
\* of them
Fusion_Init ==
    /\ nodes = FusionNodes
    /\ \E base \in {<<>>, FusionStoredEdges},
          extra \in AtMost(FusionIds \X FusionIds \X {1}, MaxCalls - 1) :
            /\ adj = ScoreGraph(base \o SetToSeq(extra)).adj
            /\ edge_id_map = ScoreGraph(base \o SetToSeq(extra)).edge_id_map
    /\ calls = MaxCalls - 1
    /\ auto_persist = FALSE
    /\ snapshot = NoFile
    /\ uuids = Cardinality(DOMAIN edge_id_map)
    /\ issued = DOMAIN edge_id_map
    /\ ret = NoCall
    /\ frames = NoFrames

Fusion_Next == HybridSearch

Fusion_Spec == Fusion_Init /\ [][Fusion_Next]_vars

(* ----------------------- the read-only operations --------------------- *)
\* a store with one call left that holds the chunk nodes and no edge or the
\* chain. With auto_persist the file is the last save, or has been removed
\* since, or could never be written; without it there is no file or a file
\* of an earlier run
Query_Init ==
    /\ nodes = FusionNodes
    /\ \E es \in {<<>>, FusionStoredEdges} :
            /\ adj = ScoreGraph(es).adj
            /\ edge_id_map = ScoreGraph(es).edge_id_map
    /\ auto_persist \in BOOLEAN
    /\ snapshot \in IF auto_persist
                    THEN {save(nodes, adj), NoFile, ReadOnly(NoFile)}
                    ELSE {NoFile, StoredFile}
    /\ uuids = Cardinality(DOMAIN edge_id_map)
    /\ issued = DOMAIN edge_id_map
    /\ calls = MaxCalls - 1
    /\ ret = NoCall
    /\ frames = NoFrames

Query_Next ==
    \/ Traverse
    \/ ComputeGraphScores
    \/ HybridSearch

Query_Spec == Query_Init /\ [][Query_Next]_vars

(* ------------------------------- claims -------------------------------- *)
\* the in-memory graph and the snapshot are what they were before the step
StoreUnchanged ==
    /\ nodes' = nodes
    /\ adj' = adj
    /\ edge_id_map' = edge_id_map
    /\ snapshot' = snapshot

\* the edges that have node n as source or target
Incident(a, n) == {e \in Edges(a) : e.source = n \/ e.target = n}

\* C1: after any sequence of store calls, successful or failed, every edge of
\* the graph has a source and a target that are both nodes of the graph.
C1_ReferentialIntegrity ==
    \A e \in Edges(adj) : e.source \in DOMAIN nodes /\ e.target \in DOMAIN nodes

\* a node was deleted while edges between other nodes remain
C1_Witness == ret.op = "delete_node" /\ ret.val # None /\ adj # <<>>

\* C2: delete_node(n) on an existing node removes n and exactly its incident
\* edges, reports their number with each edge counted once (a self-loop too),
\* afterwards get_node(n) and get_edge of each removed edge find nothing, and
\* every other node and edge is unchanged.
C2_DeleteNodeReportsCount ==
    [][ret'.op = "delete_node" /\ ret'.exc = "" =>
        \A n \in DOMAIN nodes :
            delete_node(n) =>
                /\ nodes' = [i \in (DOMAIN nodes) \ {n} |-> nodes[i]]
                /\ Edges(adj') = Edges(adj) \ Incident(adj, n)
                /\ DOMAIN edge_id_map' = {e.id : e \in Edges(adj')}
                /\ ret' = Call("delete_node", Some(Cardinality(Incident(adj, n))))
                /\ get_node(nodes', n) = None
                /\ \A e \in Incident(adj, n) : get_edge(adj', edge_id_map', e.id) = None
                /\ \A e \in Edges(adj) \ Incident(adj, n) :
                        get_edge(adj', edge_id_map', e.id) = get_edge(adj, edge_id_map, e.id)
      ]_vars

\* C3: create_edge fails (returns None, the InvalidReference outcome) whenever
\* source or target is not a node, and then adds no edge and no node and
\* leaves the edge-id index and the snapshot unchanged: a create_edge step
\* either returns None and changes nothing, or adds an edge between two nodes
\* that existed before the call and, unless the snapshot write failed, returns
\* it with the call's source and target.
C3_CreateEdgeInvalidReference ==
    [][ret'.op = "create_edge" =>
        \/ ret' = Call("create_edge", None) /\ StoreUnchanged
        \/ /\ Edges(adj') # Edges(adj)
           /\ \A e \in Edges(adj') \ Edges(adj) :
                    e.source \in DOMAIN nodes /\ e.target \in DOMAIN nodes
           /\ ret'.exc = "" =>
                    /\ ret'.val # None
                    /\ ret'.val[1].source \in DOMAIN nodes
                    /\ ret'.val[1].target \in DOMAIN nodes
      ]_vars

\* a create_edge naming a missing endpoint failed on a graph that has a node
\* and a snapshot
C3_Witness ==
    ret = Call("create_edge", None) /\ nodes # <<>> /\ snapshot.exists


\* C4: create_node with a caller-supplied id that already names a node fails
\* with DuplicateId and leaves the nodes, their fields and the edges as they
\* were; a create_node that succeeds returns the id of a node that did not
\* exist before, and one whose snapshot write failed added a new node and
\* changed no existing one.
C4_CreateNodeDuplicateId ==
    [][ret'.op = "create_node" =>
        \/ /\ ret'.exc = ""
           /\ ret'.val # None
           /\ ret'.val[1].id \notin DOMAIN nodes
        \/ /\ ret'.exc = "DuplicateId"
           /\ StoreUnchanged
        \/ /\ ret'.exc = "OSError"
           /\ DOMAIN nodes' # DOMAIN nodes
           /\ \A n \in DOMAIN nodes : nodes'[n] = nodes[n]]_vars

\* C5: the id a successful create_edge returns differs from the id of every
\* edge created or loaded before it, the edges deleted since included.
C5_EdgeIdsNeverReused ==
    [][ret'.op = "create_edge" /\ ret'.exc = "" /\ ret'.val # None =>
        ret'.val[1].id \notin issued]_vars

\* an edge was created after an earlier edge had been deleted
C5_Witness ==
    /\ ret.op = "create_edge"
    /\ ret.exc = ""
    /\ ret.val # None
    /\ ret.val[1].id \in DOMAIN edge_id_map
    /\ issued \ DOMAIN edge_id_map # {}

\* C6: after a successful create_node(text, metadata, embedding, id), get_node
\* of the returned id returns that text, metadata and embedding; after a
\* successful create_edge(source, target, relation, weight), get_edge of the
\* returned id returns that source, target, relation and weight.
C6_CreateThenGet ==
    [][/\ ret'.op = "create_node" /\ ret'.exc = "" =>
            \A in \in NodeInputs, node_id \in NodeIdArgs :
                create_node(in[1], in[2], in[3], node_id) =>
                    get_node(nodes', ret'.val[1].id) =
                        Some([id        |-> ret'.val[1].id,
                              text      |-> in[1],
                              metadata  |-> IF in[2] = None THEN EmptyDict ELSE in[2][1],
                              embedding |-> in[3]])
       /\ ret'.op = "create_edge" /\ ret'.exc = "" /\ ret'.val # None =>
            \A source_id \in DOMAIN nodes, target_id \in DOMAIN nodes,
               rel_type \in RelTypes, weight \in Weights :
                create_edge(source_id, target_id, rel_type, weight) =>
                    get_edge(adj', edge_id_map', ret'.val[1].id) =
                        Some([id     |-> ret'.val[1].id,
                              source |-> source_id,
                              target |-> target_id,
                              type   |-> rel_type,
                              weight |-> weight])]_vars

\* a node was created with metadata and an embedding, and get_node returns them
C6_Witness ==
    /\ ret.op = "create_node"
    /\ ret.exc = ""
    /\ ret.val[1].metadata = Guide
    /\ ret.val[1].embedding = Some(Vec)
    /\ get_node(nodes, ret.val[1].id) = ret.val

\* C7: update_node on an existing node sets each supplied field to the supplied
\* value and leaves the omitted fields, the set of node ids, every other node
\* and every edge unchanged.
C7_UpdateNodeSuppliedFields ==
    [][ret'.op = "update_node" /\ ret'.exc = "" /\ ret'.val = TRUE =>
        \A node_id \in DOMAIN nodes, in \in UpdateInputs :
            update_node(node_id, in[1], in[2], in[3]) =>
                /\ DOMAIN nodes' = DOMAIN nodes
                /\ \A other \in (DOMAIN nodes) \ {node_id} : nodes'[other] = nodes[other]
                /\ nodes'[node_id].text =
                        IF in[1] = None THEN nodes[node_id].text ELSE in[1][1]
                /\ nodes'[node_id].metadata =
                        IF in[2] = None THEN nodes[node_id].metadata ELSE in[2][1]
                /\ get_embedding(nodes'[node_id]) =
                        IF in[3] = None THEN get_embedding(nodes[node_id]) ELSE in[3]
                /\ get_node(nodes', node_id)[1].id = node_id
                /\ adj' = adj
                /\ edge_id_map' = edge_id_map]_vars

\* a node that has metadata got a new text only, in a graph that has an edge
C7_Witness ==
    /\ ret.op = "update_node"
    /\ ret.exc = ""
    /\ ret.val = TRUE
    /\ adj # <<>>
    /\ \E node_id \in DOMAIN nodes :
            /\ nodes[node_id].text = "t1"
            /\ nodes[node_id].metadata = Guide
            /\ nodes[node_id].embedding = Some(Vec)

\* C8: update_edge on an existing edge returns the edge with the given weight,
\* a following get_edge returns it with that weight and with its id, source,
\* target and relation as before, and every other edge is unchanged; on an
\* unknown id it reports NotFound and changes nothing.
C8_UpdateEdgeSetsWeight ==
    [][ret'.op = "update_edge" =>
        \/ /\ ret'.exc = ""
           /\ ret'.val = None
           /\ StoreUnchanged
        \/ /\ ret'.exc = ""
           /\ ret'.val # None
           /\ ret'.val[1].id \in DOMAIN edge_id_map
           /\ ret'.val[1].weight \in Weights
           /\ ret'.val[1] = [get_edge(adj, edge_id_map, ret'.val[1].id)[1]
                                EXCEPT !.weight = ret'.val[1].weight]
           /\ get_edge(adj', edge_id_map', ret'.val[1].id) = ret'.val
           /\ \A other \in (DOMAIN edge_id_map) \ {ret'.val[1].id} :
                    get_edge(adj', edge_id_map', other) = get_edge(adj, edge_id_map, other)]_vars

\* C9: delete_edge on an existing edge removes that edge and no other: a
\* following get_edge of its id finds nothing, and every node and every other
\* edge, parallel edges between the same two nodes included, is still
\* returned by its id with the same fields.
C9_DeleteEdgeExactlyOne ==
    [][ret'.op = "delete_edge" /\ ret'.exc = "" /\ ret'.val = TRUE =>
        \A edge_id \in DOMAIN edge_id_map :
            delete_edge(edge_id) =>
                /\ Edges(adj') = {e \in Edges(adj) : e.id # edge_id}
                /\ DOMAIN edge_id_map' = (DOMAIN edge_id_map) \ {edge_id}
                /\ nodes' = nodes
                /\ get_edge(adj', edge_id_map', edge_id) = None
                /\ \A other \in (DOMAIN edge_id_map) \ {edge_id} :
                        get_edge(adj', edge_id_map', other) =
                            get_edge(adj, edge_id_map, other)
                /\ \A n \in DOMAIN nodes : get_node(nodes', n) = get_node(nodes, n)]_vars

\* the first of two parallel edges was deleted and the second is still there
C9_Witness ==
    /\ ret.op = "delete_edge"
    /\ ret.exc = ""
    /\ ret.val = TRUE
    /\ \E p \in DOMAIN adj : adj[p][1].key # 0

C11_ParallelEdges ==
    [][ret'.op = "create_edge" =>
        \A source_id \in DOMAIN nodes, target_id \in DOMAIN nodes,
           rel_type \in RelTypes, weight \in Weights :
            create_edge(source_id, target_id, rel_type, weight) =>
                LET new == (DOMAIN edge_id_map') \ (DOMAIN edge_id_map)
                IN  /\ Cardinality(new) = 1
                    /\ Cardinality(Edges(adj')) = Cardinality(Edges(adj)) + 1
                    /\ DOMAIN edge_id_map \subseteq DOMAIN edge_id_map'
                    /\ {e.id : e \in Edges(adj')} = DOMAIN edge_id_map'
                    /\ \A i \in DOMAIN edge_id_map' :
                            /\ get_edge(adj', edge_id_map', i) # None
                            /\ get_edge(adj', edge_id_map', i)[1].id = i
                    /\ \A i \in DOMAIN edge_id_map :
                            get_edge(adj', edge_id_map', i) = get_edge(adj, edge_id_map, i)
                    /\ ret'.exc = "" => ret'.val # None /\ ret'.val[1].id \in new]_vars

\* an edge was created next to an edge with the same source, target and relation
C11_Witness ==
    /\ ret.op = "create_edge"
    /\ ret.exc = ""
    /\ ret.val # None
    /\ \E p \in DOMAIN adj :
            /\ p = <<ret.val[1].source, ret.val[1].target>>
            /\ Len(adj[p]) >= 2
            /\ adj[p][1].type = adj[p][2].type
            /\ adj[p][1].id # adj[p][2].id

\* C12: for every reachable graph, load of the file that save writes gives the
\* same node ids with the same text, metadata and embedding and the same edge
\* ids with the same source, target, relation and weight, and get_edge finds
\* every loaded edge id.
C12_SaveLoadRoundTrip ==
    LET file == save(nodes, adj)
        ns   == load_nodes(file)
        a    == load_adj(file)
        m    == load_edge_id_map(file)
    IN  /\ ~save_raises(nodes)
        /\ load_raises(file) = ""
        /\ DOMAIN ns = DOMAIN nodes
        /\ \A n \in DOMAIN nodes : get_node(ns, n) = get_node(nodes, n)
        /\ DOMAIN m = DOMAIN edge_id_map
        /\ {e.id : e \in Edges(a)} = DOMAIN edge_id_map
        /\ \A i \in DOMAIN edge_id_map :
                /\ get_edge(a, m, i) # None
                /\ get_edge(a, m, i) = get_edge(adj, edge_id_map, i)

\* save and then load ran on a graph with two parallel edges, one of them
\* with a weight that is not the default
C12_Witness ==
    /\ ret.op = "load"
    /\ ret.exc = ""
    /\ snapshot = save(nodes, adj)
    /\ \E p \in DOMAIN adj : Len(adj[p]) = 2 /\ adj[p][2].weight = 2

\* the call recorded in r is a mutating call that returned its success value
Succeeded(r) ==
    /\ r.exc = ""
    /\ \/ r.op = "create_node"
       \/ r.op \in {"update_node", "delete_edge"} /\ r.val = TRUE
       \/ r.op \in {"create_edge", "delete_node"} /\ r.val # None

\* the edges of a graph without their storage keys
EdgeFields(a) ==
    {[id |-> e.id, source |-> e.source, target |-> e.target,
      type |-> e.type, weight |-> e.weight] : e \in Edges(a)}

\* C13: with auto_persist set, when create_node, update_node, delete_node,
\* create_edge or delete_edge returns successfully, the file is the saved form
\* of the graph as it is now, and a store constructed on that file loads
\* without error and starts with the same nodes and the same edges.
C13_AutoPersistSnapshot ==
    [][auto_persist /\ Succeeded(ret') =>
        /\ snapshot' = save(nodes', adj')
        /\ load_raises(snapshot') = ""
        /\ load_nodes(snapshot') = nodes'
        /\ EdgeFields(load_adj(snapshot')) = EdgeFields(adj')
        /\ DOMAIN load_edge_id_map(snapshot') = DOMAIN edge_id_map']_vars

\* under auto_persist a node with an edge was deleted and the file has the
\* remaining graph
C13_Witness ==
    /\ auto_persist
    /\ ret.op = "delete_node"
    /\ ret.exc = ""
    /\ ret.val = Some(1)
    /\ nodes # <<>>
    /\ snapshot = save(nodes, adj)

\* C14: when a file exists and loading it at construction fails (unreadable,
\* not JSON, or a record without a required field), the store just
\* constructed has no nodes, no edges and an empty edge-id index.
C14_FailedLoadStartsEmpty ==
    calls = 0 /\ auto_persist /\ snapshot.exists /\ load_raises(snapshot) # "" =>
        /\ nodes = <<>>
        /\ adj = <<>>
        /\ edge_id_map = <<>>

\* the five calls that change the graph
Mutating == {"create_node", "update_node", "delete_node", "create_edge", "delete_edge"}

\* the step changed the graph by the whole of one mutation of kind op
FullyApplied(op) ==
    LET sameNodes(keep) == \A m \in keep : m \in DOMAIN nodes' /\ nodes'[m] = nodes[m]
    IN  \/ /\ op = "create_node"
           /\ \E n \in DOMAIN nodes' :
                /\ DOMAIN nodes' = (DOMAIN nodes) \cup {n}
                /\ sameNodes((DOMAIN nodes) \ {n})
           /\ Edges(adj') = Edges(adj)
        \/ /\ op = "update_node"
           /\ DOMAIN nodes' = DOMAIN nodes
           /\ \E n \in DOMAIN nodes : sameNodes((DOMAIN nodes) \ {n})
           /\ Edges(adj') = Edges(adj)
        \/ /\ op = "delete_node"
           /\ \E n \in DOMAIN nodes :
                /\ DOMAIN nodes' = (DOMAIN nodes) \ {n}
                /\ sameNodes(DOMAIN nodes')
                /\ Edges(adj') = {e \in Edges(adj) : e.source # n /\ e.target # n}
        \/ /\ op = "create_edge"
           /\ nodes' = nodes
           /\ \E e \in Edges(adj') :
                /\ e.id \notin DOMAIN edge_id_map
                /\ Edges(adj') = Edges(adj) \cup {e}
        \/ /\ op = "delete_edge"
           /\ nodes' = nodes
           /\ \E e \in Edges(adj) : Edges(adj') = Edges(adj) \ {e}

\* C15: when the write of the file fails inside an auto-persisting mutating
\* call, the graph in memory still has every edge between existing nodes, the
\* edge-id index has exactly the ids of the edges and each resolves to its
\* edge, and the graph is either as before the call or as after the whole
\* mutation.
C15_WriteFailureKeepsGraph ==
    [][ret'.op \in Mutating /\ ret'.exc = "OSError" =>
        /\ auto_persist
        /\ {e.id : e \in Edges(adj')} = DOMAIN edge_id_map'
        /\ Cardinality(Edges(adj')) = Cardinality(DOMAIN edge_id_map')
        /\ \A e \in Edges(adj') : e.source \in DOMAIN nodes' /\ e.target \in DOMAIN nodes'
        /\ \A i \in DOMAIN edge_id_map' :
                /\ get_edge(adj', edge_id_map', i) # None
                /\ get_edge(adj', edge_id_map', i)[1].id = i
        /\ \/ <<nodes', adj', edge_id_map'>> = <<nodes, adj, edge_id_map>>
           \/ FullyApplied(ret'.op)]_vars

\* the write failed while deleting node "2" of the stored graph: the node and
\* its incoming edge are gone from memory and the file is as it was
C15_Witness ==
    /\ auto_persist
    /\ ret.op = "delete_node"
    /\ ret.exc = "OSError"
    /\ snapshot = ReadOnly(StoredFile)
    /\ DOMAIN nodes = {<<"id", 1>>}
    /\ Edges(adj) = {}
    /\ edge_id_map = <<>>

\* C16: for every node of the graph, whatever edges it has, a traversal from
\* it with depth 0 returns that node alone, as the first (hop 0) entry:
\* GraphDatabase.traverse returns the one-element list, the loop of
\* graph_traversal adds no other node, and GraphDB.traverse visits only the
\* start in each direction.
C16_TraverseDepthZero ==
    \A start \in DOMAIN nodes :
        /\ traverse(nodes, adj, start, 0) = <<start>>
        /\ graph_traversal_results(adj, start, 0) = <<>>
        /\ \A direction \in Directions : GraphDB_traverse(adj, start, 0, direction) = {start}

\* traverse returned the start alone although it has a neighbour
C16_Witness ==
    /\ ret.op = "traverse"
    /\ \E start \in DOMAIN nodes :
            /\ ret.val = <<start>>
            /\ (successors(adj, start) \cup predecessors(adj, start)) \ {start} # {}

\* C17: on the same graph, for every node and every depth d >= 1, every node
\* that GraphDatabase.traverse returns for depth d - 1 is also returned for
\* depth d.
C17_TraverseMonotone ==
    \A start \in DOMAIN nodes, d \in 1..(MaxDepth + 1) :
        Range(traverse(nodes, adj, start, d - 1)) \subseteq Range(traverse(nodes, adj, start, d))

\* traverse with depth 1 returned the start and at least one more node
C17_Witness ==
    /\ ret.op = "traverse"
    /\ Len(ret.val) >= 2
    /\ ret.val = traverse(nodes, adj, ret.val[1], 1)
    /\ Range(traverse(nodes, adj, ret.val[1], 0)) # Range(ret.val)

\* the nodes one edge away from a node of B: along the edge (out), against
\* it (in), or either way (both)
OneHop(a, B, direction) ==
    (IF direction \in {"out", "both"}
     THEN {e.target : e \in {f \in Edges(a) : f.source \in B}} ELSE {})
    \cup (IF direction \in {"in", "both"}
          THEN {e.source : e \in {f \in Edges(a) : f.target \in B}} ELSE {})

\* the nodes whose shortest hop distance from start is at most d
RECURSIVE Within(_, _, _, _)
Within(a, start, d, direction) ==
    IF d = 0 THEN {start}
    ELSE LET B == Within(a, start, d - 1, direction)
         IN  B \cup OneHop(a, B, direction)

\* the shortest hop distance from start of each node within d hops
Distances(a, start, d, direction) ==
    LET W == [h \in 0..d |-> Within(a, start, h, direction)]
    IN  [n \in W[d] |-> CHOOSE h \in 0..d : n \in W[h] /\ \A g \in 0..(h - 1) : n \notin W[g]]

IsRoute(a, start, n, h, rels, ws) ==
    /\ Len(rels) = h
    /\ Len(ws) = h
    /\ \E es \in [1..h -> Edges(a)] :
            /\ h >= 1 => es[1].source = start /\ es[h].target = n
            /\ \A i \in 1..(h - 1) : es[i].target = es[i + 1].source
            /\ \A i \in 1..h : rels[i] = es[i].type /\ ws[i] = es[i].weight

\* C19: a graph traversal from an existing node returns a response in which
\* every node other than the start has a hop count, a relation path and a
\* weight path, both paths as long as the hop count and read off consecutive
\* edges of the graph that lead from the start to the node.
C19_TraversePaths ==
    [][ret'.op = "graph_traversal" =>
        \A start_id \in DOMAIN nodes, depth \in 0..MaxDepth :
            graph_traversal(start_id, depth) =>
                /\ ret'.exc = ""
                /\ ret'.val # None
                /\ \A item \in Range(ret'.val[1].nodes) :
                        /\ {"hop", "edge_path", "weights"} \subseteq DOMAIN item
                        /\ IsRoute(adj, start_id, item.id, item.hop,
                                   item.edge_path, item.weights)]_vars

\* the nodes one edge of relation r away from a node of B
OneHopRelation(a, B, r, direction) ==
    LET es == {e \in GraphDB_Edges(a) : e.relation = r}
    IN  (IF direction \in {"out", "both"}
         THEN {e.to : e \in {f \in es : f.from \in B}} ELSE {})
        \cup (IF direction \in {"in", "both"}
              THEN {e.from : e \in {f \in es : f.to \in B}} ELSE {})

\* the nodes joined to start by a route of at most d edges that all have relation r
RECURSIVE WithinRelation(_, _, _, _, _)
WithinRelation(a, start, d, r, direction) ==
    IF d = 0 THEN {start}
    ELSE LET B == WithinRelation(a, start, d - 1, r, direction)
         IN  B \cup OneHopRelation(a, B, r, direction)

\* C20: for every start node, relation r, depth and direction,
\* GraphDB.traverse_by_relation returns exactly the nodes joined to start by a
\* route of at most depth edges of relation r in that direction, so a node
\* reached only over edges of another relation is not returned, and every
\* edge it returns has relation r. The graph changes only in create_edge
\* steps, so every graph is looked at in the state that GraphDB_Init or a
\* create_edge call produced.
C20_RelationFilter ==
    ret.op \in {"init", "GraphDB.create_edge"} =>
    \A start \in DOMAIN nodes, r \in RelTypes, d \in 0..(MaxDepth + 1),
       direction \in Directions :
        LET res == traverse_by_relation(adj, start, r, d, direction)
        IN  /\ res.nodes = WithinRelation(adj, start, d, r, direction)
            /\ \A i \in DOMAIN res.edges :
                    /\ res.edges[i].relation = r
                    /\ \E e \in GraphDB_Edges(adj) :
                            /\ e.from = res.edges[i].from
                            /\ e.to = res.edges[i].to
                            /\ e.key = res.edges[i].key
                            /\ e.relation = r

\* traverse_by_relation returned a neighbour of the start and left out a
\* node that GraphDB.traverse reaches at the same depth over another relation
C20_Witness ==
    /\ ret.op = "GraphDB.traverse_by_relation"
    /\ ret.exc = ""
    /\ Cardinality(ret.val.nodes) >= 2
    /\ ret.val.nodes = traverse_by_relation(adj, ret.val.start_node, ret.val.relation,
                                            ret.val.depth, "out").nodes
    /\ GraphDB_traverse(adj, ret.val.start_node, ret.val.depth, "out") \ ret.val.nodes # {}

\* C21: for every graph of the family (weights >= 0, cycles, self-loops and
\* edges back to the start included), every existing start and every depth,
\* compute_graph_scores gives the start the score +infinity and every other
\* scored node a finite score that is not negative.
C21_StartInfiniteOthersFinite ==
    ret.op = "init" =>
        \A start \in DOMAIN nodes, depth \in 0..(MaxDepth + 1) :
            LET scores == compute_graph_scores(nodes, adj, start, depth)
            IN  /\ start \in DOMAIN scores
                /\ scores[start] = Inf
                /\ \A n \in (DOMAIN scores) \ {start} :
                        scores[n][2] > 0 /\ scores[n][1] >= 0

\* a call on a start that has a self-loop and an edge coming back to it from
\* another node returned +infinity for the start and a finite score for the other
C21_Witness ==
    /\ ret.op = "compute_graph_scores"
    /\ ret.val.start_id \in DOMAIN nodes
    /\ ret.val.depth = MaxDepth + 1
    /\ <<ret.val.start_id, ret.val.start_id>> \in DOMAIN adj
    /\ \E n \in (DOMAIN nodes) \ {ret.val.start_id} :
            /\ <<n, ret.val.start_id>> \in DOMAIN adj
            /\ n \in DOMAIN ret.val.scores
            /\ ret.val.scores[n][2] > 0
    /\ ret.val.scores[ret.val.start_id] = Inf

\* the <<node, total weight>> of every route of exactly h edges from start,
\* an edge being usable in both directions and parallel edges being separate
RECURSIVE Routes(_, _, _)
Routes(a, start, h) ==
    IF h = 0 THEN {<<start, 0>>}
    ELSE UNION {{<<e.target, w[2] + e.weight>> : e \in {x \in Edges(a) : x.source = w[1]}}
                    \cup {<<e.source, w[2] + e.weight>> :
                            e \in {x \in Edges(a) : x.target = w[1]}}
                : w \in Routes(a, start, h - 1)}

\* the largest total weight of a route of exactly h edges from start to n
MaxWeight(a, start, n, h) ==
    LET totals == {w[2] : w \in {x \in Routes(a, start, h) : x[1] = n}}
    IN  CHOOSE t \in totals : \A u \in totals : u <= t

\* the chain A -> B -> C -> D with every weight 1
ChainIds == {<<"id", i>> : i \in 1..4}
ChainAdj ==
    ScoreGraph(<<<<<<"id", 1>>, <<"id", 2>>, 1>>, <<<<"id", 2>>, <<"id", 3>>, 1>>,
                 <<<<"id", 3>>, <<"id", 4>>, 1>>>>).adj

Reversed(a, e) ==
    add_edge(remove_edge(a, e.source, e.target, e.key), e.target, e.source, e)

\* C23: compute_graph_scores scores exactly the nodes within depth hops of the
\* start when edges are followed in both directions, and turning any one
\* edge round changes no score.
C23_ScoresWithinDepthUndirected ==
    ret.op = "init" =>
        \A start \in DOMAIN nodes, depth \in 0..(MaxDepth + 1) :
            LET scores == compute_graph_scores(nodes, adj, start, depth)
            IN  /\ DOMAIN scores = Within(adj, start, depth, "both")
                /\ \A e \in Edges(adj) :
                        compute_graph_scores(nodes, Reversed(adj, e), start, depth) = scores

\* a call with depth 1 scored a node it reaches only against the direction of
\* an edge, and left a node two hops away unscored
C23_Witness ==
    /\ ret.op = "compute_graph_scores"
    /\ ret.val.start_id \in DOMAIN nodes
    /\ ret.val.depth = 1
    /\ \E n \in DOMAIN ret.val.scores :
            /\ <<n, ret.val.start_id>> \in DOMAIN adj
            /\ <<ret.val.start_id, n>> \notin DOMAIN adj
    /\ \E n \in Within(adj, ret.val.start_id, 2, "both") : n \notin DOMAIN ret.val.scores

\* the candidate ids of a hybrid_search call
Seeds(val) == {val.vector_results[i].node_id : i \in DOMAIN val.vector_results}

\* the ids at most k hops from a seed, edges followed in both directions
SeedBall(a, seeds, k) == UNION {Within(a, s, k, "both") : s \in seeds}

\* the list of the call before it is sorted and cut
Fused(val) ==
    hybrid_results(
        hybrid_combine(nodes, hybrid_candidates(val.vector_results),
                       hybrid_graph_scores(nodes, adj,
                           [i \in DOMAIN val.vector_results |->
                               val.vector_results[i].node_id])),
        val.vector_weight, val.graph_weight)

\* C24: in a hybrid_search call the graph score of an entry is fixed by the
\* least number of hops, in either direction, between it and any candidate:
\* 1.0 for 0 or 1 hop, 0.5 for 2 hops; a node more than 2 hops from every
\* candidate, or reached by none, gets no graph score and is not listed.
C24_FusionGraphScoreByHops ==
    ret.op = "hybrid_search" =>
        LET seeds == Seeds(ret.val)
            near  == SeedBall(adj, seeds, 1)
            reach == SeedBall(adj, seeds, 2)
            fused == Fused(ret.val)
        IN  /\ odict_keys(hybrid_graph_scores(nodes, adj,
                    [i \in DOMAIN ret.val.vector_results |->
                        ret.val.vector_results[i].node_id])) = reach
            /\ \A i \in DOMAIN fused :
                    fused[i].graph_score =
                        IF fused[i].node_id \in near THEN One
                        ELSE IF fused[i].node_id \in reach THEN Half ELSE 0
            /\ \A n \in (DOMAIN nodes) \ reach : \A i \in DOMAIN fused : fused[i].node_id # n

\* a call returned a node one hop from a candidate with 1.0, one two hops away
\* with 0.5, and left out a node that is three hops away
C24_Witness ==
    /\ ret.op = "hybrid_search"
    /\ \E i, j \in DOMAIN ret.val.results :
            /\ ret.val.results[i].node_id \notin Seeds(ret.val)
            /\ ret.val.results[i].graph_score = One
            /\ ret.val.results[j].graph_score = Half
    /\ \E n \in DOMAIN nodes :
            /\ n \in SeedBall(adj, Seeds(ret.val), 3)
            /\ n \notin SeedBall(adj, Seeds(ret.val), 2)
            /\ \A i \in DOMAIN ret.val.results : ret.val.results[i].node_id # n

\* the nodes A and B and the edge A -> B
PairNodes == [i \in {<<"id", 1>>, <<"id", 2>>} |-> FusionNodes[i]]
PairAdj == ScoreGraph(<<<<<<"id", 1>>, <<"id", 2>>, 1>>>>).adj

\* C25: the final score of every entry is similarity * vector_weight +
\* graph_score * graph_weight taken to the nearest ten-thousandth; the
\* candidates [(A, 0.9)] with an edge A -> B and the weights 0.6 and 0.4 give
\* A 0.94 and B 0.40.
C25_FinalScoreFormula ==
    /\ ret.op = "hybrid_search" =>
        \A i \in DOMAIN ret.val.results :
            LET x == ret.val.results[i].cosine_similarity * ret.val.vector_weight
                     + ret.val.results[i].graph_score * ret.val.graph_weight
            IN  10 * ret.val.results[i].final_score - x \in -5..5
    /\ LET r == hybrid_search(PairNodes, PairAdj,
                              <<[node_id |-> <<"id", 1>>, cosine_similarity |-> 9000]>>,
                              6, 4, 5)
       IN  /\ Len(r) = 2
           /\ r[1].node_id = <<"id", 1>> /\ r[1].final_score = 9400
           /\ r[2].node_id = <<"id", 2>> /\ r[2].final_score = 4000

\* a call returned an entry whose weighted sum has a fifth decimal place
C25_Witness ==
    /\ ret.op = "hybrid_search"
    /\ \E i \in DOMAIN ret.val.results :
            /\ ret.val.results[i].graph_score > 0
            /\ ret.val.graph_weight > 0
            /\ (ret.val.results[i].cosine_similarity * ret.val.vector_weight) % 10 > 5

\* C26: the list hybrid_search returns is in non-increasing final-score order,
\* has at most top_k entries, each of them an entry of the fused set, and no
\* entry of the fused set that was left out has a final score above that of
\* an entry that was kept.
C26_SortedAndTruncated ==
    ret.op = "hybrid_search" =>
        LET results == ret.val.results
            fused   == Fused(ret.val)
            kept    == {results[i].node_id : i \in DOMAIN results}
        IN  /\ \A i, j \in DOMAIN results :
                    i < j => results[i].final_score >= results[j].final_score
            /\ Len(results) <= ret.val.top_k
            /\ Range(results) \subseteq Range(fused)
            /\ \A i \in DOMAIN fused, j \in DOMAIN results :
                    fused[i].node_id \notin kept
                        => fused[i].final_score <= results[j].final_score

\* a call returned top_k entries, a candidate ahead of a graph-only node of
\* lower score, and left out an entry of the fused set of lower score still
C26_Witness ==
    /\ ret.op = "hybrid_search"
    /\ Len(ret.val.results) = ret.val.top_k
    /\ \E i, j \in DOMAIN ret.val.results :
            /\ i < j
            /\ ret.val.results[i].final_score > ret.val.results[j].final_score
            /\ ret.val.results[i].node_id \in Seeds(ret.val)
            /\ ret.val.results[j].node_id \notin Seeds(ret.val)
            /\ \E k \in DOMAIN Fused(ret.val) :
                    Fused(ret.val)[k].final_score < ret.val.results[j].final_score

\* C27: before it is cut, the fused list holds each candidate id and each
\* graph node within 2 hops of a candidate once and nothing else; a candidate
\* keeps its similarity, an entry that is not a candidate has similarity 0,
\* and an entry the search gave no graph score has graph score 0.
C27_FusedSetIsUnion ==
    ret.op = "hybrid_search" =>
        LET fused  == Fused(ret.val)
            seeds  == Seeds(ret.val)
            scored == odict_keys(hybrid_graph_scores(nodes, adj,
                          [i \in DOMAIN ret.val.vector_results |->
                              ret.val.vector_results[i].node_id]))
        IN  /\ {fused[i].node_id : i \in DOMAIN fused}
                    = seeds \cup (SeedBall(adj, seeds, 2) \cap DOMAIN nodes)
            /\ \A i, j \in DOMAIN fused : fused[i].node_id = fused[j].node_id => i = j
            /\ \A i \in DOMAIN fused :
                    /\ fused[i].node_id \notin seeds => fused[i].cosine_similarity = 0
                    /\ fused[i].node_id \notin scored => fused[i].graph_score = 0
                    /\ \A k \in DOMAIN ret.val.vector_results :
                            ret.val.vector_results[k].node_id = fused[i].node_id
                                => fused[i].cosine_similarity
                                        = ret.val.vector_results[k].cosine_similarity

\* a call that was not cut returned a candidate and a node it reached only
\* through the graph, that one with similarity 0
C27_Witness ==
    /\ ret.op = "hybrid_search"
    /\ Len(ret.val.results) < ret.val.top_k
    /\ \E i, j \in DOMAIN ret.val.results :
            /\ ret.val.results[i].node_id \in Seeds(ret.val)
            /\ ret.val.results[i].cosine_similarity > 0
            /\ ret.val.results[j].node_id \notin Seeds(ret.val)
            /\ ret.val.results[j].cosine_similarity = 0
            /\ ret.val.results[j].graph_score = Half

\* C28: a candidate whose id is not a node of the graph has graph score 0 and
\* the final score similarity * vector_weight alone, and gives no other node
\* a graph score.
C28_UnknownCandidateScoresZero ==
    ret.op = "hybrid_search" =>
        /\ \A i \in DOMAIN ret.val.results :
                ret.val.results[i].node_id \notin DOMAIN nodes
                    => /\ ret.val.results[i].graph_score = 0
                       /\ 10 * ret.val.results[i].final_score
                            - ret.val.results[i].cosine_similarity * ret.val.vector_weight
                                \in -5..5
        /\ Seeds(ret.val) \cap DOMAIN nodes = {}
                => \A i \in DOMAIN ret.val.results : ret.val.results[i].node_id \in Seeds(ret.val)

\* C29: with graph_weight 0 the candidates come in the returned list in
\* non-increasing similarity order; with vector_weight 0 every entry 0 or 1
\* hop from a candidate comes before every entry 2 hops away, and an entry
\* with no graph score comes after all entries that have one.
C29_WeightDegenerate ==
    ret.op = "hybrid_search" =>
        LET results == ret.val.results
            seeds   == Seeds(ret.val)
            near    == SeedBall(adj, seeds, 1)
            reach   == SeedBall(adj, seeds, 2)
        IN  /\ ret.val.graph_weight = 0 =>
                \A i, j \in DOMAIN results :
                    i < j /\ results[i].node_id \in seeds /\ results[j].node_id \in seeds
                        => results[i].cosine_similarity >= results[j].cosine_similarity
            /\ ret.val.vector_weight = 0 =>
                \A i, j \in DOMAIN results :
                    i < j => /\ results[j].node_id \in near => results[i].node_id \in near
                             /\ results[j].node_id \in reach => results[i].node_id \in reach

\* a call with vector_weight 0 returned a candidate, then a node one hop
\* away, then a node two hops away
C29_Witness ==
    /\ ret.op = "hybrid_search"
    /\ ret.val.vector_weight = 0
    /\ Len(ret.val.results) >= 3
    /\ ret.val.results[1].node_id \in Seeds(ret.val)
    /\ ret.val.results[2].node_id \in SeedBall(adj, Seeds(ret.val), 1) \ Seeds(ret.val)
    /\ ret.val.results[3].graph_score = Half

\* C30: a traverse, compute_graph_scores or hybrid_search call leaves the
\* nodes, the edges, every field value, the edge-id index and the snapshot
\* file as they were before the call.
C30_QueriesChangeNothing ==
    [][ret'.op \in {"traverse", "compute_graph_scores", "hybrid_search"}
            => StoreUnchanged /\ auto_persist' = auto_persist]_vars

\* a scoring call returned scores on a store that persists automatically and
\* whose file is missing, and the file is still missing
C30_Witness ==
    /\ ret.op = "compute_graph_scores"
    /\ ret.exc = ""
    /\ Cardinality(DOMAIN ret.val.scores) > 1
    /\ auto_persist
    /\ snapshot = NoFile
    /\ adj # <<>>

\* C32: GraphDB.delete_edge(from, to) called without a relation leaves no edge
\* from `from` to `to`, so that get_edge(from, to) raises EdgeNotFoundError
C32_DeleteEdgeRemovesAll ==
    [][(ret'.op = "GraphDB.delete_edge" /\ ret'.exc = "" /\ ret'.val.relation = None)
       => /\ <<ret'.val.from, ret'.val.to>> \notin DOMAIN adj'
          /\ GraphDB_get_edge(adj', ret'.val.from, ret'.val.to, None).exc
                = "EdgeNotFoundError"]_vars

\* C33: no two GraphDB edges with the same source and target carry the same relation
C33_NoDuplicateRelation ==
    \A p \in DOMAIN adj : \A i, j \in DOMAIN adj[p] :
        adj[p][i].relation = adj[p][j].relation => i = j

\* the edge-id index and the graph agree: every entry names a place of the
\* graph that holds an edge with the entry's id, and every edge of the graph
\* is the edge its id is indexed at
IndexAgrees(a, m) ==
    /\ \A i \in DOMAIN m :
          /\ <<m[i][1], m[i][2]>> \in DOMAIN a
          /\ \E k \in DOMAIN a[<<m[i][1], m[i][2]>>] :
                a[<<m[i][1], m[i][2]>>][k].key = m[i][3]
          /\ edge_data(a, m[i][1], m[i][2], m[i][3]).id = i
    /\ \A e \in Edges(a) :
          e.id \in DOMAIN m /\ m[e.id] = <<e.source, e.target, e.key>>
    /\ \A p \in DOMAIN a : \A j, k \in DOMAIN a[p] :
          a[p][j].key = a[p][k].key => j = k

\* C34: after any sequence of store operations and loads the edge-id index and
\* the graph agree, and get_edge on an indexed id returns the edge with that
\* id, its source, target, type and weight
C34_IndexAgreesWithGraph ==
    /\ IndexAgrees(adj, edge_id_map)
    /\ \A i \in DOMAIN edge_id_map :
          \E e \in Edges(adj) :
            /\ e.id = i
            /\ get_edge(adj, edge_id_map, i) =
                  Some(GraphRelationship(e.source, e.target, e.type, e.weight,
                                         Some(i), Regenerated))

\* a load that followed an operation and rebuilt an index of two parallel edges
C34_Witness ==
    /\ ret.op = "load" /\ ret.exc = "" /\ calls = MaxCalls
    /\ \E p \in DOMAIN adj : Len(adj[p]) > 1
    /\ Cardinality(DOMAIN edge_id_map) > 1

\* C38: an explicit load that fails leaves the graph and the edge-id index as
\* they were before the call
C38_FailedLoadChangesNothing ==
    [][(ret'.op = "load" /\ ret'.exc # "")
       => nodes' = nodes /\ adj' = adj /\ edge_id_map' = edge_id_map]_vars

\* C35: traverse and compute_graph_scores terminate on every graph, cycles,
\* self-loops and parallel edges included, for every depth >= 0: a call that
\* has entered its loop returns, and with the value the whole loop computes
C35_TraverseAndScoresTerminate ==
    /\ \A w \in Workers : (w \in DOMAIN frames) ~> (w \notin DOMAIN frames)
    /\ [][\A w \in DOMAIN frames :
            w \notin DOMAIN frames'
              => IF frames[w].op = "traverse"
                 THEN ret'.val = traverse(nodes, adj, frames[w].start_id, frames[w].depth)
                 ELSE ret'.val.scores = compute_graph_scores(nodes, adj,
                                            frames[w].start_id, frames[w].depth)]_vars

\* a scoring call of the largest depth has returned from a start node that
\* has a self-loop and lies on a cycle
C35_Witness ==
    /\ frames = NoFrames
    /\ ret.op = "compute_graph_scores"
    /\ ret.val.depth = MaxDepth + 1
    /\ <<ret.val.start_id, ret.val.start_id>> \in DOMAIN adj
    /\ Cardinality(DOMAIN ret.val.scores) > 2

\* the largest element of a non-empty set of numbers
Maximum(S) == CHOOSE x \in S : \A y \in S : y <= x

\* C36: when every seed is a node of the graph, the multi-source search of
\* hybrid_search scores the same nodes as the single-source graph_score of
\* depth 2 run from each seed, and gives each the largest of those scores,
\* which is what hybrid_retrieve merges them to
C36_MultiSourceIsMaxOfSingle ==
    (ret.op = "hybrid_search" /\ Seeds(ret.val) \subseteq DOMAIN nodes) =>
        LET seeds  == Seeds(ret.val)
            multi  == hybrid_graph_scores(nodes, adj,
                          [i \in DOMAIN ret.val.vector_results |->
                              ret.val.vector_results[i].node_id])
            single == [s \in seeds |-> graph_score(nodes, adj, s, GRAPH_DEPTH)]
            merged == graph_scores_combined(nodes, adj, ret.val.vector_results)
        IN  /\ odict_keys(multi) = UNION {DOMAIN single[s] : s \in seeds}
            /\ \A n \in odict_keys(multi) :
                  odict_get(multi, n) =
                      Maximum({single[s][n] : s \in {t \in seeds : n \in DOMAIN single[t]}})
            /\ DOMAIN merged = odict_keys(multi)
            /\ \A n \in DOMAIN merged : merged[n] = odict_get(multi, n)

\* a call with two seeds, both nodes, and a node that the first seed scores
\* 0.5 and the second 1.0
C36_Witness ==
    /\ ret.op = "hybrid_search"
    /\ Seeds(ret.val) \subseteq DOMAIN nodes
    /\ Len(ret.val.vector_results) = 2
    /\ \E n \in DOMAIN nodes :
          LET first  == graph_score(nodes, adj, ret.val.vector_results[1].node_id,
                                    GRAPH_DEPTH)
              second == graph_score(nodes, adj, ret.val.vector_results[2].node_id,
                                    GRAPH_DEPTH)
          IN  /\ n \in DOMAIN first /\ n \in DOMAIN second
              /\ first[n] = Half /\ second[n] = One

\* the calls that change the store
IsMutation(f) == f.op \in {"delete_node", "create_edge", "process_pdf_and_search"}

\* C31: mutating store calls are serialized and no read overlaps a mutation:
\* of two calls that are in progress at the same time neither is a mutation
C31_MutationsSerialized ==
    \A v, w \in DOMAIN frames :
        v # w => ~IsMutation(frames[v]) /\ ~IsMutation(frames[w])

\* what overlapping calls leave behind once all have finished: the edge-id
\* index and the graph agree
ServerQuiescentIndexAgrees == frames = NoFrames => IndexAgrees(adj, edge_id_map)

\* C37: when the ingestion of a process_pdf_and_search call finishes, by the
\* end of its loop or by an exception in it, the auto-persist flag has the
\* value it had before the call and the snapshot equals the graph in memory,
\* also when two such calls overlap
C37_PdfRestoresFlagAndSnapshot ==
    [][\A w \in DOMAIN frames :
          (/\ frames[w].op = "process_pdf_and_search"
           /\ frames[w].pc = "save"
           /\ (w \notin DOMAIN frames' \/ frames'[w].pc # "save"))
          => /\ auto_persist' = frames[w].original_auto_persist
             /\ snapshot' = save(nodes', adj')]_vars

\* once every call has finished the flag is what the service was built with
PdfQuiescentFlag == frames = NoFrames => auto_persist

====
